---- MODULE Spec2Model ----
(***************************************************************************)
(* A model of super-rpc: two endpoints joined by a message channel.  The   *)
(* "proxy" endpoint holds proxies and originates calls; the "host"         *)
(* endpoint holds the host registries and runs the targets.                *)
(*                                                                         *)
(*   Spec      the call engine: createAsyncProxyFunction,                  *)
(*             createSyncProxyFunction, createVoidProxyFunction,           *)
(*             callTargetFunction, messageReceived, the dispose function   *)
(*   SpecLife  the life cycle of host entries and proxies: objects and     *)
(*             functions travel as arguments of void calls in both         *)
(*             directions, proxies are disposed and collected              *)
(*   SpecRegistry  ProxyObjectRegistry: register, has, get, delete         *)
(*   SpecMode  createProxyFunction: the call mode of a callable            *)
(*   SpecChannel  one endpoint and its channels: markers, reply channels,  *)
(*             currentContext, re-entrant deliveries, sync proxy calls     *)
(*   SpecPromise  promises of the host travel to the proxy side and settle *)
(*   SpecDescriptors  requestRemoteDescriptors, the lookups getProxyObject,*)
(*             getProxyFunction and getProxyClass, proxy class constructors*)
(*   SpecTarget  the host handles call messages of every call type, among  *)
(*             them calls that throw                                       *)
(*   SpecClass  the members of a proxy class's prototype, called on        *)
(*             instances                                                   *)
(*   SpecEvent  the host handles the add_<e> and remove_<e> calls of       *)
(*             event listeners                                             *)
(*   SpecSet   an endpoint handles prop_set calls whose value is a         *)
(*             primitive or a promise of the peer                          *)
(*   SpecPush  descriptors messages pushed by the peer, and the lookups    *)
(*   SpecDied  obj_died of proxies made by deserialization, over channels  *)
(*             with sendSync, sendAsync or both                            *)
(*   SpecKept  a host object registered with registerHostObject that is    *)
(*             also passed to the peer as a value                          *)
(*   SpecCarrier  the order of the message carrying a promise and the      *)
(*             fn_reply of its settlement                                  *)
(*   SpecKeys  the keys of asyncCallbacks: call ids and promise objIds     *)
(***************************************************************************)
EXTENDS Naturals, Sequences, FiniteSets, TLC

\* Number of proxy invocations one behaviour of Spec makes.
MaxCalls == 2
\* Number of calls of a proxy's dispose function in one behaviour of Spec.
MaxDisposals == 1
\* SpecLife: number of times the host passes one of its objects to the peer.
MaxSends == 2
\* SpecLife: number of times the proxy side passes a proxy back to the host.
MaxSendBacks == 1
\* SpecLife: number of proxies the proxy side creates.
MaxProxies == 3
\* SpecLife: number of calls of a dispose function by the proxy side's code.
MaxLifeDisposals == 2

VARIABLES
    immediate,            \* the channel's sendAsync delivers inside the send (in-process channel)
    callId,               \* proxy side: SuperRPC.callId
    asyncCallbacks,       \* proxy side: SuperRPC.asyncCallbacks, key -> promise slot
    promises,             \* proxy side: the promises returned by async proxy calls
    stack,                \* proxy side: async proxy invocations between callId++ and asyncCallbacks.set
    proxyObjectRegistry,  \* proxy side: ProxyObjectRegistry.registry, id -> WeakRef (a heap handle)
    proxyHeap,            \* proxy side: the registered proxies, by handle
    rpc_disposed,         \* proxy side: the handles of the proxies whose [rpc_disposed] flag is true
    invocations,          \* proxy side: number of proxy invocations so far
    disposals,            \* history: the proxies whose dispose function the proxy side's code called
    lastCall,             \* proxy side: what the last proxy invocation did for its caller
    sent,                 \* proxy side: number of call messages handed to the channel
    toHost,               \* messages handed to the channel, not yet received by the host
    toProxy,              \* messages handed to the channel, not yet received by the proxy side
    hostObjectRegistry,   \* host side: id -> target
    hostFunctionRegistry, \* host side: id -> target
    hostObjectId,         \* host side: target -> the id stamped on it (obj[hostObjectId])
    idCounter,            \* host side: the state of objectIdGenerator
    hostSent,             \* history: the values the host passed to the peer, and their ids
    hostJobs,             \* host side: promise chains of async calls that have not run yet
    hostLog,              \* history: per callId, what the host did with the call
    hostSeen,             \* history: the arguments the host's targets were applied to
    obj_diedDelivered,    \* history: the ids whose obj_died the host has handled
    currentContext,       \* host side: SuperRPC.currentContext
    proxyFn,              \* SpecMode: one callable made by createProxyFunction, and what it emitted
    handed,               \* SpecChannel: history, the messages handed to a channel, and to which
    running,              \* SpecChannel: the inbound calls whose target is executing, innermost last
    channelOf,            \* SpecChannel: the channel captured by each proxy and each promise chain
    deliveries,           \* SpecChannel: number of inbound messages delivered so far
    lastInbound,          \* SpecChannel: whether the last inbound message carried the marker
    remoteDescriptors,    \* SpecChannel: the descriptors received from the peer
    hostPromises,         \* host side: the state of the host's promises
    hostThen,             \* host side: the then/finally chains of serialized promises, not yet run
    thenLog,              \* history: per id, the settlement replies the host has sent
    hasSendSync,          \* proxy side: the channel has a sendSync function
    remoteDescriptorsCallbacks, \* proxy side: SuperRPC.remoteDescriptorsCallbacks (0: undefined)
    proxyClassRegistry,   \* proxy side: class id -> the proxy class (whether it has a ctor)
    requests,             \* history: the calls of requestRemoteDescriptors, and what each returned
    targetProperty,       \* SpecSet: target[prop] of the host object "objA", per property
    propertyThens         \* SpecSet: the reactions prop_set attached to received promises, not yet run

vars == << immediate, callId, asyncCallbacks, promises, stack, proxyObjectRegistry, proxyHeap,
           rpc_disposed, invocations, disposals, lastCall, sent, toHost, toProxy,
           hostObjectRegistry, hostFunctionRegistry, hostObjectId, idCounter, hostSent,
           hostJobs, hostLog, hostSeen, obj_diedDelivered, currentContext, proxyFn, handed,
           running, channelOf, deliveries, lastInbound, remoteDescriptors, hostPromises,
           hostThen, thenLog, hasSendSync, remoteDescriptorsCallbacks, proxyClassRegistry,
           requests, targetProperty, propertyThens >>

----------------------------------------------------------------------------
(* Maps (the JavaScript Map objects of the source) as functions.            *)

MapSet(m, k, v) == [x \in (DOMAIN m) \cup {k} |-> IF x = k THEN v ELSE m[x]]
MapDelete(m, k) == [x \in (DOMAIN m) \ {k} |-> m[x]]
MapHas(m, k) == k \in DOMAIN m
EmptyMap == [x \in {} |-> x]

\* Number.prototype.toString of the call counter is ToString of module TLC:
\* the decimal numeral of the number, one string per number.

\* Error.prototype.toString: "Error: " + message.
ErrorToString(message) == "Error: " \o message

DisposedMessage == "Remote function has been disposed"

\* A message whose sender never stamped it.
addMarkerNever(message) == message

\* addMarker: message.rpc_marker = 'srpc'.
addMarker(message) ==
    [f \in (DOMAIN message) \cup {"rpc_marker"} |->
        IF f = "rpc_marker" THEN "srpc" ELSE message[f]]

\* checkMarker.  Every message of the model is an object (a record).
checkMarker(message) ==
    "rpc_marker" \in DOMAIN message /\ message.rpc_marker = "srpc"

\* sendSync, sendAsync, sendSyncIfPossible and sendAsyncIfPossible stamp the
\* message and hand it to the channel: the value is the message as the
\* channel gets it.  Which of the channel's two functions gets it is the
\* business of the actions.
sendSync(message) == addMarker(message)
sendAsync(message) == addMarker(message)
sendSyncIfPossible(message) == addMarker(message)
sendAsyncIfPossible(message) == addMarker(message)

\* The context of a delivery by a channel that passes none.
NoContext == "undefined"


----------------------------------------------------------------------------
(* The host's targets.  A function target is named by what it does; the     *)
(* object targets "instance" and "objA" have a method m and a data property *)
(* p.  "a1" is an instance of the registered host class "A", "f1" a         *)
(* function the host passes to its peer, "takes" a function of one argument.*)

FunctionTargets == { "returns", "throws", "rejects", "returnsFrozen" }

\* The order in which the proxy side obtained its proxy functions in Spec.
FunctionOrder == << "returns", "throws", "rejects", "returnsFrozen" >>

\* The values the host passes to its peer in SpecLife.
HostValues == { "a1", "f1" }

\* The promises the host passes to its peer in SpecPromise.
PromiseValues == { "p1" }

\* typeof value, with the promises (constructor === Promise) and the class
\* instances told apart (hostClassRegistry.get
\* of the constructor's class id).
KindOf(value) ==
    IF value = "f1" THEN "function" ELSE IF value \in PromiseValues THEN "promise"
    ELSE "instance"

\* target[prop] of an object target
Member(target, prop) ==
    IF target \in {"instance", "instance2", "objA"} /\ prop = "m" THEN "returns"
    ELSE "notAFunction"

\* target[prop] of an object target, as prop_get reads it.
Property(target, prop) == IF prop \in {"p", "q"} THEN "v" ELSE ""

\* target[name] for name addEventListener or removeEventListener: only the
\* object target "emitter" has the two functions.
ListenerMethod(target, name) == IF target = "emitter" THEN name ELSE "notAFunction"

\* What calling a function target does: a value, a throw, or a promise.
Invoke(target) ==
    CASE target = "throws"        -> [kind |-> "throw",  value |-> ErrorToString("boom")]
      [] target = "rejects"       -> [kind |-> "reject", value |-> ErrorToString("boom")]
      [] target = "returnsFrozen" -> [kind |-> "value",  value |-> "frozen"]
      [] target \in {"addEventListener", "removeEventListener"}
                                  -> [kind |-> "value",  value |-> ""]
      [] OTHER                    -> [kind |-> "value",  value |-> "v"]

\* processBeforeSerialization of a call result: walking a frozen object
\* assigns to its read-only keys, which throws in strict code.
SerializationThrows(value) == value = "frozen"

----------------------------------------------------------------------------
(* Values in a process and on the wire.  A local value is a record          *)
(* [type, name, h]: a host target by name, a proxy by heap handle, or       *)
(* undefined.  A wire value is a record [rpc_type, objId, classId].         *)

Undefined == [type |-> "undefined", name |-> "", h |-> 0]
TargetValue(name) == [type |-> "target", name |-> name, h |-> 0]
ProxyValue(h) == [type |-> "proxy", name |-> "", h |-> h]
\* A string.
StringValue(string) == [type |-> "string", name |-> string, h |-> 0]

Wire(rpc_type, objId, classId) == [rpc_type |-> rpc_type, objId |-> objId, classId |-> classId]

\* The n-th id of the objectIdGenerator given to the constructor: a fresh
\* string at every call.
ObjectIdGenerator(n) == "id" \o ToString(n)

\* A registration that never looks at the stamped id.
RegisterLocalAlways(target, which, st) ==
    LET objId == ObjectIdGenerator(st.gen + 1)
        st1 == [st EXCEPT !.gen = @ + 1, !.stamp = MapSet(@, target, objId)]
    IN  [st |-> IF which = "objReg"
                THEN [st1 EXCEPT !.objReg = MapSet(@, objId, target)]
                ELSE [st1 EXCEPT !.fnReg = MapSet(@, objId, target)],
         objId |-> objId]

\* registerLocalObj and registerLocalFunc: the id stamped on the target is
\* reused while the registry still has it; otherwise a new id is generated,
\* stored and stamped.  st = [objReg, fnReg, stamp, gen]; which = the
\* registry's field.
RegisterLocal(target, which, st) ==
    LET registry == IF which = "objReg" THEN st.objReg ELSE st.fnReg IN
    IF MapHas(st.stamp, target) /\ MapHas(registry, st.stamp[target])
    THEN [st |-> st, objId |-> st.stamp[target]]
    ELSE LET objId == ObjectIdGenerator(st.gen + 1)
             st1 == [st EXCEPT !.gen = @ + 1, !.stamp = MapSet(@, target, objId)]
         IN  [st |-> IF which = "objReg"
                     THEN [st1 EXCEPT !.objReg = MapSet(@, objId, target)]
                     ELSE [st1 EXCEPT !.fnReg = MapSet(@, objId, target)],
              objId |-> objId]

registerLocalObj(target, st) == RegisterLocal(target, "objReg", st)
registerLocalFunc(target, st) == RegisterLocal(target, "fnReg", st)

\* processBeforeSerialization of a local value: a proxy travels as the
\* hostObject tag of its proxyObjectId, an instance of a registered class and
\* a function are registered and travel as object and function.
\* A promise whose stamped id the object registry does not have gets the
\* then/finally chain that will send its settlement, and is registered as
\* an object; it travels as an object of class 'Promise'.
\* st = [objReg, fnReg, stamp, gen, heap]; the result is the new st, the
\* wire value and the chains attached (promise and the id of the reply).
processBeforeSerialization(value, st) ==
    IF value.type = "proxy"
    THEN [st |-> st, wire |-> Wire("hostObject", st.heap[value.h].objId, ""), attached |-> {}]
    ELSE IF KindOf(value.name) = "function"
    THEN LET r == registerLocalFunc(value.name, st)
         IN  [st |-> r.st, wire |-> Wire("function", r.objId, ""), attached |-> {}]
    ELSE IF KindOf(value.name) = "promise"
    THEN LET has == MapHas(st.stamp, value.name) /\ MapHas(st.objReg, st.stamp[value.name])
             r == registerLocalObj(value.name, st)
         IN  [st |-> r.st, wire |-> Wire("object", r.objId, "Promise"),
              attached |-> IF has THEN {} ELSE {[promise |-> value.name, objId |-> r.objId]}]
    ELSE LET r == registerLocalObj(value.name, st)
         IN  [st |-> r.st, wire |-> Wire("object", r.objId, "A"), attached |-> {}]

----------------------------------------------------------------------------
(* ProxyObjectRegistry and the proxies.  A proxy is a heap cell              *)
(* [objId, kind, state, token, onDispose]: state is "live" or "collected"    *)
(* (the WeakRef's deref is undefined), token tells whether the proxy is      *)
(* still registered with the FinalizationRegistry, onDispose whether it was  *)
(* registered with a dispose callback (sendObjectDied).                      *)
(* e = [reg, heap, flags, objReg] is what deserialization reads and writes:  *)
(* the proxy registry, the heap, the rpc_disposed flags, and the endpoint's  *)
(* own hostObjectRegistry.                                                   *)

\* ProxyObjectRegistry.get: the handle of the registered proxy, 0 for
\* undefined.
RegistryGet(objId, e) ==
    IF MapHas(e.reg, objId) /\ e.heap[e.reg[objId]].state = "live" THEN e.reg[objId] ELSE 0

\* ProxyObjectRegistry.has: the map has the key, whatever became of the proxy.
RegistryHas(objId, e) == MapHas(e.reg, objId)

\* A delete that empties the registry.
RegistryDeleteAll(objId, e) == [e EXCEPT !.reg = EmptyMap]

\* ProxyObjectRegistry.delete
RegistryDelete(objId, e) == [e EXCEPT !.reg = MapDelete(@, objId)]

\* ProxyObjectRegistry.register of a newly made proxy.
Register(objId, kind, onDispose, e) ==
    LET h == Len(e.heap) + 1
    IN  [e |-> [e EXCEPT !.heap = Append(@, [objId |-> objId, kind |-> kind, state |-> "live",
                                              token |-> TRUE, onDispose |-> onDispose]),
                         !.flags = @ \ {h},
                         !.reg = MapSet(@, objId, h)],
         value |-> ProxyValue(h)]

GetOrCreate(objId, kind, onDispose, e) ==
    IF RegistryGet(objId, e) # 0
    THEN [e |-> e, value |-> ProxyValue(RegistryGet(objId, e))]
    ELSE Register(objId, kind, onDispose, e)

getOrCreateProxyInstance(objId, classId, e) ==
    GetOrCreate(objId, IF classId = "Promise" THEN "promise" ELSE "instance", TRUE, e)
getOrCreateProxyFunction(objId, e) == GetOrCreate(objId, "function", TRUE, e)
\* getProxyObject and getProxyFunction register without a dispose callback.
getProxyObject(objId, e) == GetOrCreate(objId, "object", FALSE, e)
getProxyFunction(objId, e) == GetOrCreate(objId, "function", FALSE, e)

\* processAfterDeserialization of a wire value.
processAfterDeserialization(wire, e) ==
    CASE wire.rpc_type = "object"     -> getOrCreateProxyInstance(wire.objId, wire.classId, e)
      [] wire.rpc_type = "function"   -> getOrCreateProxyFunction(wire.objId, e)
      [] wire.rpc_type = "hostObject" ->
            [e |-> e,
             value |-> IF MapHas(e.objReg, wire.objId)
                       THEN TargetValue(e.objReg[wire.objId]) ELSE Undefined]
      [] wire.rpc_type = "primitive"  -> [e |-> e, value |-> StringValue(wire.objId)]

\* deserializeFunctionArgs: the arguments in order.  The result is the new e
\* and, per argument, the id it travelled under and the local value.
RECURSIVE deserializeFunctionArgs(_, _)
deserializeFunctionArgs(args, e) ==
    IF args = << >> THEN [e |-> e, values |-> << >>]
    ELSE LET first == processAfterDeserialization(Head(args), e)
             rest == deserializeFunctionArgs(Tail(args), first.e)
         IN  [e |-> rest.e,
              values |-> << [objId |-> Head(args).objId, value |-> first.value] >>
                             \o rest.values]

\* A dispose function that empties the registry instead of deleting the one
\* entry of its id.
rpc_disposeFuncClearsAll(h, e) ==
    [e |-> [e EXCEPT !.heap[h].token = FALSE, !.reg = EmptyMap, !.flags = @ \cup {h}],
     out |-> IF e.heap[h].onDispose
             THEN << sendAsyncIfPossible([action |-> "obj_died", objId |-> e.heap[h].objId]) >>
             ELSE << >>]

\* The function stored as obj[rpc_disposeFunc] by register: it unregisters
\* the token, deletes the registry's entry for objId, sets the flag of the
\* proxy it was made for, and calls the dispose callback.  The result is the
\* new e and the messages handed to the channel.
rpc_disposeFunc(h, e) ==
    [e |-> [e EXCEPT !.heap[h].token = FALSE,
                     !.reg = MapDelete(@, e.heap[h].objId),
                     !.flags = @ \cup {h}],
     out |-> IF e.heap[h].onDispose
             THEN << sendAsyncIfPossible([action |-> "obj_died", objId |-> e.heap[h].objId]) >>
             ELSE << >>]

----------------------------------------------------------------------------
(* Host side.  hs = [jobs, log, objReg, fnReg, seen, died].                 *)

\* The host's registries as deserialization sees them: the host holds no
\* proxies in this model.
HostEndpoint(objReg) == [reg |-> EmptyMap, heap |-> << >>, flags |-> {}, objReg |-> objReg]

\* The classes whose descriptors the host has of its peer.
HostRemoteClasses == { "A" }

\* What deserializeFunctionArgs throws on the host, "" when it does not
\* throw: an object of a class getProxyClass has no descriptor of.
RECURSIVE ArgumentError(_)
ArgumentError(args) ==
    IF args = << >> THEN ""
    ELSE IF Head(args).rpc_type = "object" /\ Head(args).classId \notin HostRemoteClasses \cup {"Promise"}
    THEN ErrorToString("No class registered with ID '" \o Head(args).classId \o "'")
    ELSE ArgumentError(Tail(args))

\* Length of the event names of the add_<e> / remove_<e> calls.
MaxNameLen == 3

\* Texts are sequences of characters; the words add, remove and on are
\* taken as one character each.  An event name is a text of the characters
\* k and _.
RECURSIVE TextsOver(_, _)
TextsOver(chars, n) ==
    IF n = 0 THEN { << >> }
    ELSE { << c >> \o t : c \in chars, t \in TextsOver(chars, n - 1) }

EventNames == UNION { TextsOver({"k", "_"}, n) : n \in 1..MaxNameLen }

\* 'add_' + eventName and 'remove_' + eventName, the names
\* createProxyObject gives the event calls, and the same with another word.
EventProps == { << word, "_" >> \o e : word \in {"add", "remove", "on"}, e \in EventNames }

\* The string of a text.
RECURSIVE StringOf(_)
StringOf(text) == IF text = << >> THEN "" ELSE Head(text) \o StringOf(Tail(text))

\* The text of a string: that of an event call's name, or the one character
\* that any other name of the model is.
TextOf(string) ==
    IF \E t \in EventProps : StringOf(t) = string
    THEN CHOOSE t \in EventProps : StringOf(t) = string
    ELSE << string >>

\* String.prototype.split('_'): the pieces between the underscores, empty
\* ones included.
RECURSIVE Split(_)
Split(text) ==
    IF text = << >> THEN << << >> >>
    ELSE LET rest == Split(Tail(text))
         IN  IF Head(text) = "_" THEN << << >> >> \o rest
             ELSE << << Head(text) >> \o Head(rest) >> \o Tail(rest)

\* callTargetFunction, case method_call, the event branch: the first two
\* pieces of the split name are taken as addOrRemove and eventName; for add
\* or remove and a non-empty eventName the target becomes the object's
\* addEventListener or removeEventListener and eventName goes before the
\* arguments.
EventTarget(entry, pieces) ==
    IF /\ Len(pieces) >= 2
       /\ pieces[2] # << >>
       /\ StringOf(pieces[1]) \in {"add", "remove"}
    THEN [target |-> ListenerMethod(entry, StringOf(pieces[1]) \o "EventListener"),
          first |-> << [objId |-> "", value |-> StringValue(StringOf(pieces[2]))] >>]
    ELSE [target |-> "notAFunction", first |-> << >>]

\* callTargetFunction, case method_call, for the objects of the model, whose
\* descriptors have function descriptors for their members only: without a
\* member of the name, the name is split at the underscores and taken as an
\* event call.  The result is the function to call ("notAFunction" when
\* typeof target is not 'function') and the arguments that go first.
MethodTarget(entry, prop) ==
    IF Member(entry, prop) = "notAFunction" /\ Property(entry, prop) = ""
    THEN EventTarget(entry, Split(TextOf(prop)))
    ELSE [target |-> Member(entry, prop), first |-> << >>]

\* callTargetFunction, the switch on msg.action and the call, for the
\* registry's entry and, for a method call, what MethodTarget found.
ApplyTarget(msg, entry, found, objReg) ==
    IF msg.action = "prop_get"
    THEN [kind |-> "value", args |-> << >>, value |-> Property(entry, msg.prop)]
    ELSE IF msg.action = "prop_set"
    THEN IF ArgumentError(msg.args) # ""
         THEN [kind |-> "throw", args |-> << >>, value |-> ArgumentError(msg.args)]
         ELSE [kind |-> "value", value |-> "",
               args |-> deserializeFunctionArgs(msg.args, HostEndpoint(objReg)).values]
    ELSE IF found.target = "notAFunction"
    THEN [kind |-> "throw", args |-> << >>,
          value |-> ErrorToString("Property " \o msg.prop \o
                                  " is not a function on object " \o msg.objId)]
    ELSE IF ArgumentError(msg.args) # ""
    THEN [kind |-> "throw", args |-> << >>, value |-> ArgumentError(msg.args)]
    ELSE [kind |-> Invoke(found.target).kind, value |-> Invoke(found.target).value,
          fn |-> found.target,
          scope |-> IF msg.action = "method_call" THEN entry ELSE "",
          args |-> found.first \o
                   deserializeFunctionArgs(msg.args, HostEndpoint(objReg)).values]

\* callTargetFunction, the try block up to the call-type handling: the value
\* the target produced, the error thrown, or the promise it returned, and
\* the arguments the target was applied to.
CallTarget(msg, objReg, fnReg) ==
    LET registry == IF msg.action \in {"fn_call", "ctor_call"} THEN fnReg ELSE objReg IN
    IF ~MapHas(registry, msg.objId)
    THEN [kind |-> "throw", args |-> << >>,
          value |-> ErrorToString("No object found with ID '" \o msg.objId \o "'")]
    ELSE ApplyTarget(msg, registry[msg.objId],
                     IF msg.action = "method_call"
                     THEN MethodTarget(registry[msg.objId], msg.prop)
                     ELSE [target |-> registry[msg.objId], first |-> << >>],
                     objReg)

\* The history of the arguments seen by the targets.
Seen(hs, r) == [hs EXCEPT !.seen = IF r.args = << >> THEN @ ELSE r.args]

FnReplyAsync(id, success, result) ==
    [action |-> "fn_reply", callType |-> "async", success |-> success,
     result |-> result, callId |-> id]

NoLog == [handled |-> 0, replies |-> 0, failed |-> FALSE, err |-> ""]
LogOf(log, id) == IF MapHas(log, id) THEN log[id] ELSE NoLog

\* callTargetFunction for an async call: a synchronous throw is answered at
\* once; otherwise the reply is left to the promise chain (a host job).
\* The result is the new hs and the messages handed to the channel.
CallTargetFunctionAsync(msg, hs) ==
    LET r == CallTarget(msg, hs.objReg, hs.fnReg)
        old == LogOf(hs.log, msg.callId)
    IN  IF r.kind = "throw"
        THEN [hs  |-> [hs EXCEPT !.log = MapSet(hs.log, msg.callId,
                                    [old EXCEPT !.handled = @ + 1, !.replies = @ + 1,
                                                !.failed = TRUE, !.err = r.value])],
              out |-> << sendAsync(FnReplyAsync(msg.callId, FALSE, r.value)) >>]
        ELSE [hs  |-> [Seen(hs, r) EXCEPT
                                 !.jobs = @ \cup {[callId |-> msg.callId, kind |-> r.kind,
                                                    value |-> r.value]},
                                 !.log = MapSet(hs.log, msg.callId,
                                                [old EXCEPT !.handled = @ + 1])],
              out |-> << >>]

\* The promise chain of an async call: serialize the value and reply, or
\* reply with the rejection's string form.  A throw of the serialization is
\* inside the first then: the second then, which sends, never runs.
PromiseChain(job, hs) ==
    LET old == LogOf(hs.log, job.callId)
        rest == [hs EXCEPT !.jobs = @ \ {job}]
    IN  IF job.kind = "reject"
        THEN [hs  |-> [rest EXCEPT !.log = MapSet(hs.log, job.callId,
                                    [old EXCEPT !.replies = @ + 1, !.failed = TRUE,
                                                !.err = job.value])],
              out |-> << sendAsync(FnReplyAsync(job.callId, FALSE, job.value)) >>]
        ELSE IF SerializationThrows(job.value)
        THEN [hs |-> rest, out |-> << >>]
        ELSE [hs  |-> [rest EXCEPT !.log = MapSet(hs.log, job.callId,
                                    [old EXCEPT !.replies = @ + 1])],
              out |-> << sendAsync(FnReplyAsync(job.callId, TRUE, job.value)) >>]

FnReplySync(success, result) ==
    [action |-> "fn_reply", callType |-> "sync", success |-> success, result |-> result]

NoResponse == [action |-> "none"]

\* The descriptor tables before any descriptors were received (the three
\* fields are undefined): objects and functions are the ids that have a
\* descriptor, classes maps a class id to whether its descriptor has a ctor.
NoDescriptors == [objects |-> {}, functions |-> {}, classes |-> EmptyMap]

\* A setRemoteDescriptors that also stores the tables the response lacks,
\* as empty ones.
setRemoteDescriptorsAll(response, tables) ==
    IF response = NoResponse THEN [success |-> FALSE, tables |-> tables]
    ELSE [success |-> TRUE,
          tables |-> [t \in DOMAIN tables |->
                         IF t \in DOMAIN response THEN response[t] ELSE NoDescriptors[t]]]

\* setRemoteDescriptors: false for a response that is not an object;
\* otherwise each table the response has replaces the stored one.
setRemoteDescriptors(response, tables) ==
    IF response = NoResponse THEN [success |-> FALSE, tables |-> tables]
    ELSE [success |-> TRUE,
          tables |-> [t \in DOMAIN tables |->
                         IF t \in DOMAIN response THEN response[t] ELSE tables[t]]]

\* What the assignment to a key of a frozen object throws, as a string.
FrozenErrorString == "TypeError: Cannot assign to read only property"

\* callTargetFunction for a sync call: the result is serialized inside the
\* try block, and the reply is handed to the reply channel's sendSync.
CallTargetFunctionSync(msg, hs) ==
    LET r == CallTarget(msg, hs.objReg, hs.fnReg) IN
    IF r.kind = "throw" THEN FnReplySync(FALSE, r.value)
    ELSE IF SerializationThrows(r.value) THEN FnReplySync(FALSE, FrozenErrorString)
    ELSE FnReplySync(TRUE, r.value)

\* A receive handler without the try block: what the target threw leaves the
\* handler, and nothing is sent.
CallTargetFunctionNoCatch(msg, hs) ==
    IF CallTarget(msg, hs.objReg, hs.fnReg).kind = "throw"
    THEN [hs |-> hs, out |-> << >>, reply |-> NoResponse]
    ELSE [hs |-> Seen(hs, CallTarget(msg, hs.objReg, hs.fnReg)), out |-> << >>,
          reply |-> NoResponse]

\* callTargetFunction: the result is the new hs, the messages handed to
\* sendAsync and the message handed to sendSync.  A void call is answered by
\* nothing, whatever the target did.
CallTargetFunction(msg, hs) ==
    CASE msg.callType = "async" ->
            LET h == CallTargetFunctionAsync(msg, hs)
            IN  [hs |-> h.hs, out |-> h.out, reply |-> NoResponse]
      [] msg.callType = "sync" ->
            [hs |-> Seen(hs, CallTarget(msg, hs.objReg, hs.fnReg)), out |-> << >>,
             reply |-> sendSync(CallTargetFunctionSync(msg, hs))]
      [] msg.callType = "void" ->
            [hs |-> Seen(hs, CallTarget(msg, hs.objReg, hs.fnReg)), out |-> << >>,
             reply |-> NoResponse]

\* The class descriptors of the host's hostClassRegistry: class "A" has a
\* ctor (registerHostClass also puts it in the function registry), class "B"
\* has none.
HostClasses == MapSet(MapSet(EmptyMap, "A", [ctor |-> TRUE]), "B", [ctor |-> FALSE])

\* sendRemoteDescriptors: the three tables of getLocalDescriptors, handed to
\* sendSyncIfPossible.
sendRemoteDescriptors(objReg, fnReg, classReg) ==
    sendSyncIfPossible([action |-> "descriptors", objects |-> DOMAIN objReg,
                        functions |-> DOMAIN fnReg, classes |-> classReg])

\* messageReceived on the host side, the switch on the action.  The
\* descriptors that answer get_descriptors are in out: they are handed to the
\* reply channel, which makes them the requester's sync response or its
\* next message.
HostMessageReceived(msg, hs) ==
    CASE msg.action = "obj_died" ->
            [hs |-> [hs EXCEPT !.objReg = MapDelete(hs.objReg, msg.objId),
                               !.died = @ \cup {msg.objId}],
             out |-> << >>, reply |-> NoResponse]
      [] msg.action = "get_descriptors" ->
            [hs |-> hs, out |-> << sendRemoteDescriptors(hs.objReg, hs.fnReg, HostClasses) >>,
             reply |-> NoResponse]
      [] msg.action \in {"prop_get", "prop_set", "ctor_call", "fn_call", "method_call"} ->
            CallTargetFunction(msg, hs)

\* messageReceived: the context is stored first, the marker checked next.
messageReceived(message, context, hs) ==
    LET stored == [hs EXCEPT !.ctx = context] IN
    IF checkMarker(message) THEN HostMessageReceived(message, stored)
    ELSE [hs |-> stored, out |-> << >>, reply |-> NoResponse]

----------------------------------------------------------------------------
(* Proxy side.  ps = [cb, pr, reg, heap, flags].                            *)

\* resolve / reject of a promise: only the first call settles it.
Settle(pr, slot, success, result, key) ==
    [pr EXCEPT ![slot] =
        IF @.status = "pending"
        THEN [@ EXCEPT !.status = IF success THEN "resolved" ELSE "rejected",
                       !.value = result, !.settledBy = key, !.settleCalls = @ + 1]
        ELSE [@ EXCEPT !.settleCalls = @ + 1]]

\* messageReceived, case fn_reply.
FnReplyReceived(msg, ps) ==
    IF msg.callType = "async"
    THEN [ps EXCEPT !.cb = MapDelete(ps.cb, msg.callId),
                    !.pr = IF MapHas(ps.cb, msg.callId)
                           THEN Settle(ps.pr, ps.cb[msg.callId], msg.success, msg.result,
                                       msg.callId)
                           ELSE ps.pr]
    ELSE ps

\* getOrCreateProxyInstance, the special case for Promise: the executor of
\* each promise made (the heap cells from handle h on) stores the promise's
\* resolve/reject pair in asyncCallbacks under the objId.
RECURSIVE PromiseExecutors(_, _)
PromiseExecutors(h, ps) ==
    IF h > Len(ps.heap) THEN ps
    ELSE IF ps.heap[h].kind # "promise" THEN PromiseExecutors(h + 1, ps)
    ELSE PromiseExecutors(h + 1,
             [ps EXCEPT !.pr = Append(@, [msgId |-> "", call |-> [action |-> "promise",
                                                                  objId |-> ps.heap[h].objId],
                                          status |-> "pending", value |-> "",
                                          settledBy |-> "", settleCalls |-> 0]),
                        !.cb = MapSet(@, ps.heap[h].objId, Len(ps.pr) + 1)])

\* messageReceived on the proxy side: a reply, or a void call of one of the
\* proxy side's own functions, whose arguments are deserialized (the proxy
\* side hosts no objects of its own in this model).
ProxyMessageReceived(msg, ps) ==
    IF ~checkMarker(msg) THEN ps
    ELSE IF msg.action = "fn_reply" THEN FnReplyReceived(msg, ps)
    ELSE LET d == deserializeFunctionArgs(msg.args,
                     [reg |-> ps.reg, heap |-> ps.heap, flags |-> ps.flags,
                      objReg |-> EmptyMap])
         IN  PromiseExecutors(Len(ps.heap) + 1,
                 [ps EXCEPT !.reg = d.e.reg, !.heap = d.e.heap, !.flags = d.e.flags])

RECURSIVE ProxyReceiveAll(_, _)
ProxyReceiveAll(msgs, ps) ==
    IF msgs = << >> THEN ps
    ELSE ProxyReceiveAll(Tail(msgs), ProxyMessageReceived(Head(msgs), ps))

\* A callable that makes no disposed check.
IsDisposedNever(c, flags) == FALSE

\* The check every synthesized callable makes first: the rpc_disposed flag
\* of the callable itself (holder: the handle of the function when it is a
\* registered proxy, 0 when no registry ever saw the function).
IsDisposed(c, flags) == c.holder \in flags

----------------------------------------------------------------------------
(* What the proxy side can invoke.  In Spec the proxy side holds, from the  *)
(* start, the proxy functions of the host's functions (getProxyFunction,    *)
(* handles 1..4) and the proxy of the host instance "inst1" (handle 5).  A  *)
(* method synthesized by createProxyObject is a function of its own;        *)
(* receiver is the proxy object it is invoked on.                           *)

InstanceHandle == Len(FunctionOrder) + 1

ProxyFunctions ==
    { [action |-> "fn_call", objId |-> FunctionOrder[i], prop |-> "", holder |-> i,
       receiver |-> i] : i \in 1..Len(FunctionOrder) }

ProxyMethods ==
    { [action |-> "method_call", objId |-> "inst1", prop |-> p, holder |-> 0,
       receiver |-> InstanceHandle] : p \in {"m", "p"} }

Callables == ProxyFunctions \cup ProxyMethods

\* The targets a sync proxy is invoked on in this model: those whose result
\* is not a promise.
SyncCallables == { c \in Callables : c.objId # "rejects" }

\* SpecLife: the proxy side's void proxy of the host function "takes".
TakesCallable ==
    [action |-> "fn_call", objId |-> "takes", prop |-> "", holder |-> 0, receiver |-> 0]

----------------------------------------------------------------------------
(* The state of the two endpoints.                                          *)

callerVars == << callId, asyncCallbacks, promises, stack >>
regVars == << proxyObjectRegistry, proxyHeap, rpc_disposed >>
histVars == << invocations, lastCall, sent >>
chanVars == << toHost, toProxy >>
hostVars == << hostObjectRegistry, hostFunctionRegistry, hostJobs, hostLog, hostSeen,
               obj_diedDelivered, currentContext >>
idVars == << hostObjectId, idCounter, hostSent >>
modeVars == << proxyFn >>
wireVars == << handed, running, channelOf, deliveries, lastInbound, remoteDescriptors >>
promiseVars == << hostPromises, hostThen, thenLog >>
descVars == << hasSendSync, remoteDescriptorsCallbacks, proxyClassRegistry, requests >>
setVars == << targetProperty, propertyThens >>

\* No callable is under study.
NoProxyFn ==
    [action |-> "none", returns |-> "", sendSync |-> TRUE, sendAsync |-> TRUE,
     callType |-> "", emitted |-> ""]

NoCall == [call |-> [action |-> "none"], callType |-> "none", outcome |-> "none", value |-> ""]

\* A registered proxy as register leaves it.
Cell(objId, kind, onDispose) ==
    [objId |-> objId, kind |-> kind, state |-> "live", token |-> TRUE, onDispose |-> onDispose]

\* What the constructor leaves, on both sides.
InitShared ==
    /\ immediate \in BOOLEAN
    /\ callId = 0
    /\ asyncCallbacks = EmptyMap
    /\ promises = << >>
    /\ stack = << >>
    /\ rpc_disposed = {}
    /\ invocations = 0
    /\ disposals = << >>
    /\ lastCall = NoCall
    /\ sent = 0
    /\ toHost = << >>
    /\ toProxy = << >>
    /\ idCounter = 0
    /\ hostSent = << >>
    /\ hostJobs = {}
    /\ hostLog = EmptyMap
    /\ hostSeen = << >>
    /\ obj_diedDelivered = {}
    /\ currentContext = NoContext
    /\ handed = {}
    /\ running = << >>
    /\ channelOf = [proxies |-> EmptyMap, jobs |-> EmptyMap]
    /\ deliveries = 0
    /\ lastInbound = "none"
    /\ remoteDescriptors = NoDescriptors
    /\ hostPromises = [p \in PromiseValues |-> [status |-> "pending", value |-> ""]]
    /\ hostThen = {}
    /\ thenLog = EmptyMap
    /\ remoteDescriptorsCallbacks = 0
    /\ proxyClassRegistry = EmptyMap
    /\ requests = << >>
    /\ targetProperty = [prop \in {"q", "qa"} |-> Undefined]
    /\ propertyThens = {}

InitCommon == InitShared /\ hasSendSync = TRUE

\* Spec: the host has registered its functions and the instance "inst1";
\* the proxy side has obtained a proxy of each.
Init ==
    /\ InitCommon
    /\ proxyFn = NoProxyFn
    /\ hostObjectRegistry = [id \in {"inst1"} |-> "instance"]
    /\ hostFunctionRegistry = [id \in FunctionTargets |-> id]
    /\ hostObjectId = [t \in FunctionTargets \cup {"instance"} |->
                           IF t = "instance" THEN "inst1" ELSE t]
    /\ proxyHeap = [h \in 1..InstanceHandle |->
                       IF h = InstanceHandle THEN Cell("inst1", "instance", TRUE)
                       ELSE Cell(FunctionOrder[h], "function", FALSE)]
    /\ proxyObjectRegistry =
           [id \in FunctionTargets \cup {"inst1"} |->
               IF id = "inst1" THEN InstanceHandle
               ELSE CHOOSE h \in 1..Len(FunctionOrder) : FunctionOrder[h] = id]

HostState ==
    [jobs |-> hostJobs, log |-> hostLog, objReg |-> hostObjectRegistry,
     fnReg |-> hostFunctionRegistry, seen |-> hostSeen, died |-> obj_diedDelivered,
     ctx |-> currentContext]

SetHostState(hs) ==
    /\ hostJobs' = hs.jobs
    /\ hostLog' = hs.log
    /\ hostObjectRegistry' = hs.objReg
    /\ hostFunctionRegistry' = hs.fnReg
    /\ hostSeen' = hs.seen
    /\ obj_diedDelivered' = hs.died
    /\ currentContext' = hs.ctx

ProxyState ==
    [cb |-> asyncCallbacks, pr |-> promises, reg |-> proxyObjectRegistry, heap |-> proxyHeap,
     flags |-> rpc_disposed]

SetProxyState(ps) ==
    /\ asyncCallbacks' = ps.cb
    /\ promises' = ps.pr
    /\ proxyObjectRegistry' = ps.reg
    /\ proxyHeap' = ps.heap
    /\ rpc_disposed' = ps.flags

CallMessage(c, callType, id, args) ==
    [action |-> c.action, callType |-> callType, objId |-> c.objId, prop |-> c.prop,
     callId |-> id, args |-> args]

\* serializeFunctionArgs on the proxy side: the arguments are proxies, which
\* register nothing.
RECURSIVE serializeFunctionArgs(_, _)
serializeFunctionArgs(args, heap) ==
    IF args = << >> THEN << >>
    ELSE << processBeforeSerialization(Head(args),
                [objReg |-> EmptyMap, fnReg |-> EmptyMap, stamp |-> EmptyMap, gen |-> 0,
                 heap |-> heap]).wire >> \o serializeFunctionArgs(Tail(args), heap)

\* The key under which createAsyncProxyFunction stores the resolve/reject
\* pair: the counter as it is when the send has returned.
CallbackKey(counter, msgId) == ToString(counter)

----------------------------------------------------------------------------
(* The call engine.                                                         *)

\* createAsyncProxyFunction, first part: the disposed check and callId++;
\* the message's callId is taken here.  Serializing the arguments comes
\* next and runs caller code (the getters of an argument object), which
\* may invoke another proxy before this invocation goes on: the open
\* invocations are on the stack.
AsyncCallBegin(c) ==
    /\ invocations' = invocations + 1
    /\ IF IsDisposed(c, rpc_disposed)
       THEN /\ promises' = Append(promises,
                    [msgId |-> "", call |-> c, status |-> "rejected",
                     value |-> ErrorToString(DisposedMessage), settledBy |-> "",
                     settleCalls |-> 1])
            /\ lastCall' = [call |-> c, callType |-> "async", outcome |-> "rejected",
                            value |-> ErrorToString(DisposedMessage)]
            /\ UNCHANGED << callId, stack >>
       ELSE /\ callId' = callId + 1
            /\ promises' = Append(promises,
                    [msgId |-> ToString(callId + 1), call |-> c, status |-> "pending",
                     value |-> "", settledBy |-> "", settleCalls |-> 0])
            /\ lastCall' = [call |-> c, callType |-> "async", outcome |-> "promise",
                            value |-> ""]
            /\ stack' = Append(stack, Len(promises) + 1)
    /\ UNCHANGED << immediate, asyncCallbacks, sent, regVars, disposals, chanVars, hostVars,
                    idVars, modeVars, wireVars,
                    promiseVars, descVars, setVars >>

\* createAsyncProxyFunction, second part: sendAsync of the call message,
\* then asyncCallbacks.set under the counter's current value.  On a channel
\* that delivers inside the send, the host handles the message, and the
\* proxy side any reply to it, before the set.
AsyncCallEnd ==
    /\ stack # << >>
    /\ LET slot == stack[Len(stack)]
           p == promises[slot]
           msg == sendAsync(CallMessage(p.call, "async", p.msgId, << >>))
           key == CallbackKey(callId, p.msgId)
       IN  IF immediate
           THEN LET h == messageReceived(msg, NoContext, HostState)
                    ps == ProxyReceiveAll(h.out, ProxyState)
                IN  /\ SetHostState(h.hs)
                    /\ SetProxyState([ps EXCEPT !.cb = MapSet(ps.cb, key, slot)])
                    /\ UNCHANGED toHost
           ELSE /\ toHost' = Append(toHost, msg)
                /\ asyncCallbacks' = MapSet(asyncCallbacks, key, slot)
                /\ UNCHANGED << promises, regVars, hostVars >>
    /\ stack' = SubSeq(stack, 1, Len(stack) - 1)
    /\ sent' = sent + 1
    /\ UNCHANGED << immediate, callId, invocations, lastCall, disposals, toProxy, idVars, modeVars, wireVars,
                    promiseVars, descVars, setVars >>

\* A sync proxy that takes any reply for a success.
SyncProxyResultUnchecked(response) ==
    IF response = NoResponse THEN [outcome |-> "returned", value |-> ""]
    ELSE [outcome |-> "returned", value |-> response.result]

\* createSyncProxyFunction, after sendSync has returned: the checks of the
\* response, in the order of the source.  The text of the second error goes
\* on with the JSON text of the response, which is left out here.  The
\* results of the model's targets are plain values, which
\* processAfterDeserialization returns as they are.
SyncProxyResult(response) ==
    IF response = NoResponse
    THEN [outcome |-> "threw", value |-> ErrorToString("No response received")]
    ELSE IF ~checkMarker(response)
    THEN [outcome |-> "threw", value |-> ErrorToString("Invalid response")]
    ELSE IF ~response.success
    THEN [outcome |-> "threw", value |-> ErrorToString(response.result)]
    ELSE [outcome |-> "returned", value |-> response.result]

\* createSyncProxyFunction: the disposed check, sendSync (the host handles
\* the message inside it), then the checks of the response.
SyncCall(c) ==
    /\ stack = << >>
    /\ invocations' = invocations + 1
    /\ IF IsDisposed(c, rpc_disposed)
       THEN /\ lastCall' = [call |-> c, callType |-> "sync", outcome |-> "threw",
                            value |-> ErrorToString(DisposedMessage)]
            /\ UNCHANGED << sent, hostVars >>
       ELSE LET h == messageReceived(sendSync(CallMessage(c, "sync", "", << >>)), NoContext,
                                       HostState)
                response == h.reply
            IN  /\ SetHostState(h.hs)
                /\ sent' = sent + 1
                /\ lastCall' = [call |-> c, callType |-> "sync",
                                outcome |-> SyncProxyResult(response).outcome,
                                value |-> SyncProxyResult(response).value]
    /\ UNCHANGED << immediate, callerVars, regVars, disposals, chanVars, idVars, modeVars, wireVars,
                    promiseVars, descVars, setVars >>

\* createVoidProxyFunction: the disposed check, then sendAsyncIfPossible of
\* the message with the serialized arguments.
VoidCall(c, args) ==
    /\ stack = << >>
    /\ invocations' = invocations + 1
    /\ IF IsDisposed(c, rpc_disposed)
       THEN /\ lastCall' = [call |-> c, callType |-> "void", outcome |-> "threw",
                            value |-> ErrorToString(DisposedMessage)]
            /\ UNCHANGED << sent, toHost, hostVars >>
       ELSE LET msg == sendAsyncIfPossible(CallMessage(c, "void", "",
                                              serializeFunctionArgs(args, proxyHeap)))
            IN  /\ lastCall' = [call |-> c, callType |-> "void", outcome |-> "returned",
                                value |-> ""]
                /\ sent' = sent + 1
                /\ IF immediate
                   THEN /\ SetHostState(messageReceived(msg, NoContext, HostState).hs)
                        /\ UNCHANGED toHost
                   ELSE /\ toHost' = Append(toHost, msg)
                        /\ UNCHANGED hostVars
    /\ UNCHANGED << immediate, callerVars, regVars, disposals, toProxy, idVars, modeVars, wireVars,
                    promiseVars, descVars, setVars >>

\* The host's receive callback takes the next message off the channel.
HostReceive ==
    /\ toHost # << >>
    /\ LET h == messageReceived(Head(toHost), NoContext, HostState)
       IN  /\ SetHostState(h.hs)
           /\ toProxy' = toProxy \o h.out
    /\ toHost' = Tail(toHost)
    /\ UNCHANGED << immediate, callerVars, regVars, histVars, disposals, idVars, modeVars, wireVars,
                    promiseVars, descVars, setVars >>

\* The promise chain of one async call runs (the target's result has
\* settled).  In one thread with the proxy side, it runs between turns.
HostPromiseSettles(job) ==
    /\ job \in hostJobs
    /\ immediate => stack = << >>
    /\ LET h == PromiseChain(job, HostState)
       IN  /\ SetHostState(h.hs)
           /\ IF immediate
              THEN /\ SetProxyState(ProxyReceiveAll(h.out, ProxyState))
                   /\ UNCHANGED toProxy
              ELSE /\ toProxy' = toProxy \o h.out
                   /\ UNCHANGED << asyncCallbacks, promises, regVars >>
    /\ UNCHANGED << immediate, callId, stack, histVars, disposals, toHost, idVars, modeVars, wireVars,
                    promiseVars, descVars, setVars >>

\* The proxy side's receive callback takes the next message off the channel.
ProxyReceive ==
    /\ toProxy # << >>
    /\ stack = << >>
    /\ SetProxyState(ProxyMessageReceived(Head(toProxy), ProxyState))
    /\ toProxy' = Tail(toProxy)
    /\ UNCHANGED << immediate, callId, stack, histVars, disposals, toHost, hostVars, idVars, modeVars, wireVars,
                    promiseVars, descVars, setVars >>

\* A run of the dispose function of proxy h: the registry's part, then the
\* obj_died that the dispose callback hands to sendAsyncIfPossible.
RunDisposeFunc(h) ==
    LET d == rpc_disposeFunc(h, [reg |-> proxyObjectRegistry, heap |-> proxyHeap,
                                 flags |-> rpc_disposed, objReg |-> EmptyMap])
    IN  /\ proxyObjectRegistry' = d.e.reg
        /\ proxyHeap' = d.e.heap
        /\ rpc_disposed' = d.e.flags
        /\ IF d.out = << >> THEN UNCHANGED << toHost, hostVars >>
           ELSE IF immediate
           THEN /\ SetHostState(messageReceived(d.out[1], NoContext, HostState).hs)
                /\ UNCHANGED toHost
           ELSE /\ toHost' = toHost \o d.out
                /\ UNCHANGED hostVars

\* The proxy side's code calls the dispose function of a proxy it holds;
\* nothing keeps it from calling the function again.
DisposeProxy(h) ==
    /\ stack = << >>
    /\ proxyHeap[h].state = "live"
    /\ disposals' = Append(disposals, h)
    /\ RunDisposeFunc(h)
    /\ UNCHANGED << immediate, callerVars, histVars, toProxy, idVars, modeVars, wireVars,
                    promiseVars, descVars, setVars >>

Next ==
    \/ \E c \in Callables : invocations < MaxCalls /\ AsyncCallBegin(c)
    \/ AsyncCallEnd
    \/ \E c \in SyncCallables : invocations < MaxCalls /\ SyncCall(c)
    \/ \E c \in Callables : invocations < MaxCalls /\ VoidCall(c, << >>)
    \/ HostReceive
    \/ \E job \in hostJobs : HostPromiseSettles(job)
    \/ ProxyReceive
    \/ \E h \in 1..Len(proxyHeap) : Len(disposals) < MaxDisposals /\ DisposeProxy(h)

Spec == Init /\ [][Next]_vars

----------------------------------------------------------------------------
(* The life cycle of host entries and proxies.                              *)

\* SpecLife: the host has registered the object "objA" and the function
\* "takes" explicitly and the class "A"; the descriptors have been
\* exchanged; the proxy side holds no registered proxy yet.
InitLife ==
    /\ InitCommon
    /\ proxyFn = NoProxyFn
    /\ hostObjectRegistry = [id \in {"objA"} |-> "objA"]
    /\ hostFunctionRegistry = [id \in {"takes"} |-> "takes"]
    /\ hostObjectId = [t \in {"objA", "takes"} |-> t]
    /\ proxyHeap = << >>
    /\ proxyObjectRegistry = EmptyMap

\* The host invokes its void proxy of a function of the peer with one of its
\* own values as the argument (createVoidProxyFunction on the host's side):
\* the argument is registered and serialized, the message handed to
\* sendAsyncIfPossible.  The peer's messageReceived runs inside the send on
\* an immediate channel.
HostVoidCall(value) ==
    /\ LET s == processBeforeSerialization(TargetValue(value),
                    [objReg |-> hostObjectRegistry, fnReg |-> hostFunctionRegistry,
                     stamp |-> hostObjectId, gen |-> idCounter, heap |-> << >>])
           msg == sendAsyncIfPossible(
                      [action |-> "fn_call", callType |-> "void", objId |-> "cb", prop |-> "",
                       callId |-> "", args |-> << s.wire >>])
       IN  /\ hostObjectRegistry' = s.st.objReg
           /\ hostFunctionRegistry' = s.st.fnReg
           /\ hostObjectId' = s.st.stamp
           /\ idCounter' = s.st.gen
           /\ hostSent' = Append(hostSent, [value |-> value, objId |-> s.wire.objId])
           /\ hostThen' = hostThen \cup s.attached
           /\ IF immediate
              THEN /\ SetProxyState(ProxyMessageReceived(msg, ProxyState))
                   /\ UNCHANGED toProxy
              ELSE /\ toProxy' = Append(toProxy, msg)
                   /\ UNCHANGED << asyncCallbacks, promises, regVars >>
    /\ UNCHANGED << immediate, callId, stack, histVars, disposals, toHost, hostJobs, hostLog,
                    hostSeen, obj_diedDelivered, currentContext, modeVars, wireVars,
                    hostPromises, thenLog, descVars, setVars >>

\* getProxyObject called by the proxy side's code.
GetProxyObject(objId) ==
    /\ LET g == getProxyObject(objId, [reg |-> proxyObjectRegistry, heap |-> proxyHeap,
                                       flags |-> rpc_disposed, objReg |-> EmptyMap])
       IN  /\ proxyObjectRegistry' = g.e.reg
           /\ proxyHeap' = g.e.heap
           /\ rpc_disposed' = g.e.flags
    /\ UNCHANGED << immediate, callerVars, histVars, disposals, chanVars, hostVars, idVars, modeVars, wireVars,
                    promiseVars, descVars, setVars >>

\* The garbage collector collects a proxy the proxy side's code has let go.
Collect(h) ==
    /\ proxyHeap[h].state = "live"
    /\ proxyHeap' = [proxyHeap EXCEPT ![h].state = "collected"]
    /\ UNCHANGED << immediate, callerVars, proxyObjectRegistry, rpc_disposed, histVars,
                    disposals, chanVars, hostVars, idVars, modeVars, wireVars,
                    promiseVars, descVars, setVars >>

\* The FinalizationRegistry's callback for a collected proxy that is still
\* registered with it: it calls the held value, the proxy's dispose function.
Finalize(h) ==
    /\ proxyHeap[h].state = "collected"
    /\ proxyHeap[h].token
    /\ RunDisposeFunc(h)
    /\ UNCHANGED << immediate, callerVars, histVars, disposals, toProxy, idVars, modeVars, wireVars,
                    promiseVars, descVars, setVars >>

\* The proxies the proxy side's code holds and has not disposed.
LiveProxies ==
    { h \in 1..Len(proxyHeap) : proxyHeap[h].state = "live" /\ h \notin rpc_disposed }

\* Every message on its way to the proxy side makes at most one proxy.
MayMakeProxy == Len(proxyHeap) + Len(toProxy) < MaxProxies

\* The registry and the heap as ProxyObjectRegistry reads and writes them.
RegistryState ==
    [reg |-> proxyObjectRegistry, heap |-> proxyHeap, flags |-> rpc_disposed,
     objReg |-> EmptyMap]

NextLife ==
    \/ \E value \in HostValues : Len(hostSent) < MaxSends /\ MayMakeProxy /\ HostVoidCall(value)
    \/ MayMakeProxy /\ GetProxyObject("objA")
    \/ ProxyReceive
    \/ \E h \in LiveProxies :
          invocations < MaxSendBacks /\ VoidCall(TakesCallable, << ProxyValue(h) >>)
    \/ HostReceive
    \/ \E h \in 1..Len(proxyHeap) : Len(disposals) < MaxLifeDisposals /\ DisposeProxy(h)

SpecLife == InitLife /\ [][NextLife]_vars

\* The same with a garbage collector that collects proxies.
NextGC ==
    \/ NextLife
    \/ \E h \in 1..Len(proxyHeap) : Collect(h)
    \/ \E h \in 1..Len(proxyHeap) : Finalize(h)

SpecGC == InitLife /\ [][NextGC]_vars

----------------------------------------------------------------------------
(* Claims about the async call engine.                                      *)

Quiescent == toHost = << >> /\ toProxy = << >> /\ hostJobs = {} /\ stack = << >>

\* The slots of the calls that emitted a message (not refused as disposed).
SentSlots == { i \in 1..Len(promises) : promises[i].msgId # "" }

\* C1: the promise of every async proxy call is settled at most once, and
\* only by the fn_reply whose callId is the callId of the call's own message.
C1_SettledByOwnReply ==
    \A i \in SentSlots :
        /\ promises[i].settleCalls <= 1
        /\ promises[i].status # "pending" => promises[i].settledBy = promises[i].msgId

\* C2: for every inbound async call the host emits at most one fn_reply with
\* its callId, and exactly one once the call's processing is over.
C2_ExactlyOneReply ==
    \A id \in DOMAIN hostLog :
        /\ hostLog[id].replies <= 1
        /\ (\A job \in hostJobs : job.callId # id) => hostLog[id].replies = 1

\* C3: when the host's processing of an async call failed and nothing is left
\* in flight, the caller's promise is rejected with the error's string form.
C3_FailureObserved ==
    Quiescent =>
        \A i \in SentSlots :
            LogOf(hostLog, promises[i].msgId).failed =>
                /\ promises[i].status = "rejected"
                /\ promises[i].value = hostLog[promises[i].msgId].err

\* A step that is an invocation of callable c.
Invokes(c) == invocations' = invocations + 1 /\ lastCall'.call = c

\* The invocation fails with the disposed error: a throw for void and sync,
\* a rejected promise for async.
FailsAsDisposed(call) ==
    /\ call.outcome = IF call.callType = "async" THEN "rejected" ELSE "threw"
    /\ call.value = ErrorToString(DisposedMessage)

\* The invocation hands nothing to the channel, allocates no callId and no
\* pending-call entry, and starts nothing that would.
EmitsNothing ==
    /\ sent' = sent
    /\ UNCHANGED << chanVars, hostVars, idVars, callId, asyncCallbacks, stack >>

\* C9: an invocation of a proxy function whose dispose function has run fails
\* with the disposed error (thrown for void and sync, a rejected promise for
\* async), emits no message and allocates no pending-call entry.
C9_DisposedFunctionFails ==
    [][ \A c \in ProxyFunctions :
            (c.holder \in rpc_disposed /\ Invokes(c)) =>
                (FailsAsDisposed(lastCall') /\ EmitsNothing) ]_vars

\* C9 witness: an async proxy function was invoked after its dispose and
\* returned a promise rejected with the disposed error.
C9_Witness ==
    /\ lastCall.callType = "async"
    /\ lastCall.call \in ProxyFunctions
    /\ lastCall.call.holder \in rpc_disposed
    /\ lastCall.outcome = "rejected"
    /\ promises[Len(promises)].status = "rejected"
    /\ asyncCallbacks = EmptyMap

\* C10: an invocation of a method of a proxy object that has been disposed
\* fails with the disposed error and emits no message.
C10_DisposedObjectFails ==
    [][ \A c \in ProxyMethods :
            (c.receiver \in rpc_disposed /\ Invokes(c)) =>
                (FailsAsDisposed(lastCall') /\ EmitsNothing) ]_vars

----------------------------------------------------------------------------
(* Claims about the life cycle of host entries and proxies.                 *)

\* The ids the host generated for the values it passed to the peer.
AutoIds == { ObjectIdGenerator(n) : n \in 1..idCounter }

\* The kind of the proxies that the proxy side made for id k.
ProxyKinds(k) == { proxyHeap[h].kind : h \in { x \in 1..Len(proxyHeap) : proxyHeap[x].objId = k } }

\* The host target that travelled under id k: the value the host passed
\* under a generated id, the registered target of an explicit id.
Origin(k) ==
    IF \E i \in 1..Len(hostSent) : hostSent[i].objId = k
    THEN hostSent[CHOOSE i \in 1..Len(hostSent) : hostSent[i].objId = k].value
    ELSE k

\* The host resolved the argument to the target that travelled under its id.
ResolvedToOrigin(s) == s.value = TargetValue(Origin(s.objId))

\* C4: when the proxy side passes a live proxy of a host object (an explicitly
\* registered object or an instance of a registered class) back to the host,
\* the host's deserialization yields the host target that was sent.
C4_ObjectRoundTrip ==
    \A i \in 1..Len(hostSeen) :
        ProxyKinds(hostSeen[i].objId) \cap {"instance", "object"} # {} =>
            ResolvedToOrigin(hostSeen[i])

\* C5: when the proxy side passes the proxy of a function of the host back to
\* the host, the host's deserialization resolves it to the original function.
C5_FunctionRoundTrip ==
    \A i \in 1..Len(hostSeen) :
        "function" \in ProxyKinds(hostSeen[i].objId) => ResolvedToOrigin(hostSeen[i])

\* The ids carried by the messages in flight to the proxy side.
InFlightIds == { toProxy[i].args[j].objId : i \in 1..Len(toProxy), j \in {1} }

\* C6: while the proxy side holds a live proxy of an auto-registered id, or a
\* message carrying the id is in flight to it, the host has an entry for the id.
C6_EntryWhileReferenced ==
    \A k \in AutoIds :
        (k \in InFlightIds \/ \E h \in LiveProxies : proxyHeap[h].objId = k) =>
            (MapHas(hostObjectRegistry, k) \/ MapHas(hostFunctionRegistry, k))

\* C7: once the obj_died of an auto-registered id has been delivered, the host
\* has no entry for the id in its object registry nor in its function registry.
C7_EntryRemoved ==
    \A k \in AutoIds \cap obj_diedDelivered :
        ~MapHas(hostObjectRegistry, k) /\ ~MapHas(hostFunctionRegistry, k)

\* C8: no two live proxies of the proxy side have the same id.
C8_OneLiveProxy ==
    \A h1 \in LiveProxies : \A h2 \in LiveProxies :
        proxyHeap[h1].objId = proxyHeap[h2].objId => h1 = h2

----------------------------------------------------------------------------
(* Claims about the dispose function and the registry.                      *)

\* A step in which the proxy side's code calls the dispose function of h.
Disposes(h) == disposals' = Append(disposals, h)

\* C11: a call of the dispose function of a proxy whose dispose function has
\* already run changes no registry state and sends nothing: the dispose
\* callback runs at most once, at most one obj_died is emitted.
C11_SecondDisposeNoOp ==
    [][ \A h \in 1..Len(proxyHeap) :
            (h \in rpc_disposed /\ Disposes(h)) =>
                UNCHANGED << proxyObjectRegistry, rpc_disposed, chanVars, hostVars >> ]_vars

\* The registry and heap as ProxyObjectRegistry.get reads them after the step.
RegistryAfter ==
    [reg |-> proxyObjectRegistry', heap |-> proxyHeap', flags |-> rpc_disposed',
     objReg |-> EmptyMap]

\* The step hands exactly one message to the channel, the obj_died of id k
\* (on an immediate channel the host has handled it inside the send).
EmitsObjDied(k) ==
    IF immediate
    THEN /\ obj_diedDelivered' = obj_diedDelivered \cup {k}
         /\ hostObjectRegistry' = MapDelete(hostObjectRegistry, k)
         /\ UNCHANGED << chanVars, hostFunctionRegistry >>
    ELSE /\ Len(toHost') = Len(toHost) + 1
         /\ SubSeq(toHost', 1, Len(toHost)) = toHost
         /\ toHost'[Len(toHost')].action = "obj_died"
         /\ toHost'[Len(toHost')].objId = k
         /\ UNCHANGED << toProxy, hostVars >>

\* C12: a call of the dispose function of a registered proxy sets the proxy's
\* flag, makes get of its id return nothing, and runs that proxy's dispose
\* callback (one obj_died of its id when it has one, nothing otherwise); the
\* entries and the proxies of other ids are left as they were.
C12_DisposeEffect ==
    [][ \A h \in 1..Len(proxyHeap) :
            Disposes(h) =>
                LET k == proxyHeap[h].objId IN
                /\ h \in rpc_disposed'
                /\ RegistryGet(k, RegistryAfter) = 0
                /\ IF proxyHeap[h].onDispose THEN EmitsObjDied(k)
                   ELSE UNCHANGED << chanVars, hostVars >>
                /\ \A id \in (DOMAIN proxyObjectRegistry) \ {k} :
                      /\ MapHas(proxyObjectRegistry', id)
                      /\ proxyObjectRegistry'[id] = proxyObjectRegistry[id]
                /\ DOMAIN proxyObjectRegistry' \subseteq DOMAIN proxyObjectRegistry
                /\ \A h2 \in 1..Len(proxyHeap) :
                      proxyHeap[h2].objId # k =>
                          /\ proxyHeap'[h2] = proxyHeap[h2]
                          /\ (h2 \in rpc_disposed') = (h2 \in rpc_disposed) ]_vars

\* C12 witness: the dispose function of a proxy with a dispose callback has
\* run (its obj_died is in the channel) while a proxy of another id is
\* still registered and not disposed.
C12_Witness ==
    /\ disposals # << >>
    /\ \E h \in rpc_disposed : \E h2 \in LiveProxies :
          /\ proxyHeap[h].onDispose
          /\ proxyHeap[h2].objId # proxyHeap[h].objId
          /\ RegistryGet(proxyHeap[h2].objId,
                         [reg |-> proxyObjectRegistry, heap |-> proxyHeap]) = h2
          /\ RegistryGet(proxyHeap[h].objId,
                         [reg |-> proxyObjectRegistry, heap |-> proxyHeap]) = 0
          /\ \E i \in 1..Len(toHost) :
                toHost[i].action = "obj_died" /\ toHost[i].objId = proxyHeap[h].objId

----------------------------------------------------------------------------
(* ProxyObjectRegistry on its own, driven through its public methods.       *)

\* The ids the registry is driven with.
RegistryIds == { "one", "two" }

InitRegistry ==
    /\ InitCommon
    /\ proxyFn = NoProxyFn
    /\ hostObjectRegistry = EmptyMap
    /\ hostFunctionRegistry = EmptyMap
    /\ hostObjectId = EmptyMap
    /\ proxyHeap = << >>
    /\ proxyObjectRegistry = EmptyMap

\* register(objId, obj) with a new object.
RegistryRegisterCall(objId) ==
    /\ LET r == Register(objId, "object", FALSE, RegistryState)
       IN  /\ proxyObjectRegistry' = r.e.reg
           /\ proxyHeap' = r.e.heap
           /\ rpc_disposed' = r.e.flags
    /\ UNCHANGED << immediate, callerVars, histVars, disposals, chanVars, hostVars, idVars, modeVars, wireVars,
                    promiseVars, descVars, setVars >>

\* delete(objId)
RegistryDeleteCall(objId) ==
    /\ LET d == RegistryDelete(objId, RegistryState)
       IN  /\ proxyObjectRegistry' = d.reg
           /\ proxyHeap' = d.heap
           /\ rpc_disposed' = d.flags
    /\ UNCHANGED << immediate, callerVars, histVars, disposals, chanVars, hostVars, idVars, modeVars, wireVars,
                    promiseVars, descVars, setVars >>

NextRegistry ==
    \/ \E objId \in RegistryIds : Len(proxyHeap) < MaxProxies /\ RegistryRegisterCall(objId)
    \/ \E objId \in RegistryIds : RegistryDeleteCall(objId)
    \/ \E h \in 1..Len(proxyHeap) : Len(disposals) < MaxLifeDisposals /\ DisposeProxy(h)
    \/ \E h \in 1..Len(proxyHeap) : Collect(h)

SpecRegistry == InitRegistry /\ [][NextRegistry]_vars

\* has and get of every id but objId give the same in e1 and e2.
SameElsewhere(objId, e1, e2) ==
    \A other \in RegistryIds \ {objId} :
        /\ RegistryHas(other, e1) = RegistryHas(other, e2)
        /\ RegistryGet(other, e1) = RegistryGet(other, e2)

\* C13: in every state of the registry, register(id, p) with a new live p
\* makes has(id) true and get(id) return p; delete(id) makes has(id) false
\* and get(id) return nothing; neither changes has or get of another id.
C13_RegisterDelete ==
    \A objId \in RegistryIds :
        LET r == Register(objId, "object", FALSE, RegistryState)
            d == RegistryDelete(objId, RegistryState)
        IN  /\ RegistryHas(objId, r.e)
            /\ r.value.h = Len(proxyHeap) + 1
            /\ RegistryGet(objId, r.e) = r.value.h
            /\ SameElsewhere(objId, RegistryState, r.e)
            /\ ~RegistryHas(objId, d)
            /\ RegistryGet(objId, d) = 0
            /\ SameElsewhere(objId, RegistryState, d)

\* C13 witness: "one" was registered and then deleted (its proxy is alive and
\* was never disposed, the registry has no entry for it) while "two" is
\* registered and get returns its proxy.
C13_Witness ==
    /\ disposals = << >>
    /\ ~RegistryHas("one", RegistryState)
    /\ \E h \in LiveProxies : proxyHeap[h].objId = "one"
    /\ RegistryHas("two", RegistryState)
    /\ RegistryGet("two", RegistryState) \in LiveProxies

\* C37: when the dispose function of a proxy registered under k runs while
\* the registry's entry for k refers to a newer live proxy, the entry stays
\* and get(k) still returns the newer proxy.
C37_NewerProxyKept ==
    [][\A h \in 1..Len(proxyHeap) :
          (Len(disposals') = Len(disposals) + 1 /\ disposals'[Len(disposals')] = h)
              => LET k == proxyHeap[h].objId
                     newer == RegistryGet(k, RegistryState)
                 IN  newer > h
                         => RegistryGet(k, [reg |-> proxyObjectRegistry', heap |-> proxyHeap',
                                            flags |-> rpc_disposed', objReg |-> EmptyMap])
                                = newer]_vars

----------------------------------------------------------------------------
(* The call mode of a synthesized callable.                                 *)

CallActions == { "fn_call", "method_call", "ctor_call", "prop_get", "prop_set" }

\* What a descriptor may declare as returns; "" is undeclared.
ReturnsDeclared == { "", "void", "sync", "async" }

\* The defaultCallType that the callers of createProxyFunction pass:
\* getProxyFunction and createProxyObject's functions leave the default
\* 'async', getProxyClass passes 'sync' for the ctor, createProxyObject
\* 'sync' for a getter and, for a setter, 'sync' when the channel has
\* sendSync and 'void' otherwise.
DefaultCallType(action, hasSync) ==
    CASE action \in {"fn_call", "method_call"} -> "async"
      [] action \in {"ctor_call", "prop_get"}  -> "sync"
      [] action = "prop_set"                   -> IF hasSync THEN "sync" ELSE "void"

\* A createProxyFunction that never re-maps the call type.
createProxyFunctionNoRemap(returns, defaultCallType, hasSync, hasAsync) ==
    LET callType == IF returns # "" THEN returns ELSE defaultCallType
    IN  IF callType \in {"void", "sync"} THEN callType ELSE "async"

\* createProxyFunction: the shape of the callable it returns.
createProxyFunction(returns, defaultCallType, hasSync, hasAsync) ==
    LET callType == IF returns # "" THEN returns ELSE defaultCallType
        c1 == IF callType = "async" /\ ~hasAsync THEN "sync" ELSE callType
        c2 == IF c1 = "sync" /\ ~hasSync THEN "async" ELSE c1
    IN  IF c2 \in {"void", "sync"} THEN c2 ELSE "async"

\* The callType of the message an invocation of a callable hands to the
\* channel, "nothing" when the channel lacks the transport: sendSync for a
\* sync callable, sendAsync for an async one, sendAsyncIfPossible for a
\* void one.
EmittedCallType(callType, hasSync, hasAsync) ==
    CASE callType = "sync"  -> IF hasSync THEN "sync" ELSE "nothing"
      [] callType = "async" -> IF hasAsync THEN "async" ELSE "nothing"
      [] callType = "void"  -> IF hasSync \/ hasAsync THEN "void" ELSE "nothing"

\* SpecMode: a descriptor and a channel are given; the callable is made,
\* then invoked once.
InitMode ==
    /\ InitCommon
    /\ hostObjectRegistry = EmptyMap
    /\ hostFunctionRegistry = EmptyMap
    /\ hostObjectId = EmptyMap
    /\ proxyHeap = << >>
    /\ proxyObjectRegistry = EmptyMap
    /\ proxyFn \in [action : CallActions, returns : ReturnsDeclared, sendSync : BOOLEAN,
                    sendAsync : BOOLEAN, callType : {""}, emitted : {""}]

allButMode == << immediate, callerVars, regVars, histVars, disposals, chanVars, hostVars,
                 idVars, wireVars, promiseVars, descVars, setVars >>

CreateCallable ==
    /\ proxyFn.callType = ""
    /\ proxyFn' = [proxyFn EXCEPT !.callType =
                      createProxyFunction(proxyFn.returns,
                                          DefaultCallType(proxyFn.action, proxyFn.sendSync),
                                          proxyFn.sendSync, proxyFn.sendAsync)]
    /\ UNCHANGED allButMode

InvokeCallable ==
    /\ proxyFn.callType # ""
    /\ proxyFn.emitted = ""
    /\ proxyFn' = [proxyFn EXCEPT !.emitted =
                      EmittedCallType(proxyFn.callType, proxyFn.sendSync, proxyFn.sendAsync)]
    /\ UNCHANGED allButMode

NextMode == CreateCallable \/ InvokeCallable

SpecMode == InitMode /\ [][NextMode]_vars

\* The declared return behaviour, or the default when undeclared.
Declared ==
    IF proxyFn.returns # "" THEN proxyFn.returns
    ELSE DefaultCallType(proxyFn.action, proxyFn.sendSync)

\* C14: the call mode of a callable follows from the declared return behaviour
\* (the default when undeclared, 'async' for functions and methods) and the
\* channel: with sendSync only 'async' becomes 'sync', with sendAsync only
\* 'sync' becomes 'async', 'void' stays 'void', and with both transports the
\* declared mode is used.
C14_CallMode ==
    proxyFn.callType # "" =>
        /\ (proxyFn.returns = "" /\ proxyFn.action \in {"fn_call", "method_call"})
              => Declared = "async"
        /\ Declared = "void" => proxyFn.callType = "void"
        /\ (Declared = "async" /\ proxyFn.sendSync /\ ~proxyFn.sendAsync)
              => proxyFn.callType = "sync"
        /\ (Declared = "sync" /\ ~proxyFn.sendSync /\ proxyFn.sendAsync)
              => proxyFn.callType = "async"
        /\ (proxyFn.sendSync /\ proxyFn.sendAsync) => proxyFn.callType = Declared

\* C14 witness: a method declared 'async' on a channel with sendSync only was
\* made a sync callable and its invocation emitted a sync call.
C14_Witness ==
    /\ proxyFn.action = "method_call"
    /\ proxyFn.returns = "async"
    /\ proxyFn.sendSync /\ ~proxyFn.sendAsync
    /\ proxyFn.callType = "sync"
    /\ proxyFn.emitted = "sync"

\* C15: no ctor_call and no prop_get message has callType 'void', no prop_set
\* message has callType 'async', whatever the descriptor declares.
C15_CallTypesOfActions ==
    /\ proxyFn.action \in {"ctor_call", "prop_get"} => proxyFn.emitted # "void"
    /\ proxyFn.action = "prop_set" => proxyFn.emitted # "async"

----------------------------------------------------------------------------
(* One endpoint and its channels.  In SpecChannel the endpoint is both host *)
(* and holder of proxies; its peers are the environment.  Messages arrive   *)
(* with a reply channel and a context, as a channel's receive callback      *)
(* passes them to messageReceived.                                          *)

\* Number of inbound messages one behaviour of SpecChannel delivers.
MaxDeliveries == 2
\* Number of invocations of a proxy's callable in one behaviour of
\* SpecChannel.
MaxProxyCalls == 1

\* this.channel, and the channels a delivery can name as its reply channel
\* (messageReceived's default is this.channel).  Both have sendSync and
\* sendAsync.
DefaultChannel == "channel"
ReplyChannels == { DefaultChannel, "replyChannel" }

\* The raw transport event that comes with the n-th delivery: a new object
\* at every delivery.
EventOf(n) == "event" \o ToString(n)

\* A call message as a peer's endpoint sends it.
PeerCall(objId, callType, id, args) ==
    [rpc_marker |-> "srpc", action |-> "fn_call", callType |-> callType, objId |-> objId,
     prop |-> "", callId |-> id, args |-> args]

\* What the transport can deliver: the messages of a peer, and a message
\* of some other user of the transport, which has no marker.
InboundMessages ==
    { [action |-> "fn_call", callType |-> "sync", objId |-> "returns", prop |-> "",
       callId |-> "", args |-> << >>],
      [rpc_marker |-> "srpc", action |-> "get_descriptors"],
      [rpc_marker |-> "srpc", action |-> "obj_died", objId |-> "inst1"],
      PeerCall("returns", "sync", "", << >>),
      PeerCall("rejects", "async", "8", << >>),
      PeerCall("returns", "void", "", << Wire("object", "o1", "A") >>),
      PeerCall("returns", "void", "", << Wire("function", "g1", "") >>) }

\* What a peer's sendSync can return to a sync proxy call: nothing, a reply
\* that some other user of the transport made, or a peer's reply.
SyncResponses ==
    { NoResponse,
      [action |-> "fn_reply", callType |-> "sync", success |-> TRUE, result |-> "v"],
      [rpc_marker |-> "srpc", action |-> "fn_reply", callType |-> "sync", success |-> FALSE,
       result |-> "Error: boom"],
      [rpc_marker |-> "srpc", action |-> "fn_reply", callType |-> "sync", success |-> TRUE,
       result |-> "v"] }

\* The channel a proxy's calls go through: getOrCreateProxyFunction passes
\* the reply channel to createProxyFunction; the methods of an instance are
\* those of the prototype of its proxy class, which getProxyClass makes with
\* createProxyObject, where createProxyFunction gets no channel and takes
\* this.channel.
ProxyCallChannel(kind, replyChannel) ==
    IF kind = "function" THEN replyChannel ELSE DefaultChannel

\* The channels of the proxies that deserialization has added to the heap:
\* origin is the reply channel of the message they were made from, call
\* the channel of their calls, died the channel sendObjectDied is given.
NewProxyChannels(proxies, oldHeap, newHeap, replyChannel) ==
    [h \in (DOMAIN proxies) \cup (Len(oldHeap) + 1 .. Len(newHeap)) |->
        IF h \in DOMAIN proxies THEN proxies[h]
        ELSE [origin |-> replyChannel,
              call |-> ProxyCallChannel(newHeap[h].kind, replyChannel),
              died |-> replyChannel]]

\* The records of handing each of msgs to fn of channel; cause is the reply
\* channel of the inbound message the sends are a consequence of, "none"
\* when there is no such message.
Hand(msgs, channel, fn, cause) ==
    { [message |-> msgs[i], channel |-> channel, fn |-> fn, cause |-> cause] :
        i \in 1..Len(msgs) }

\* sendRemoteDescriptors: the descriptors message.
DescriptorsMessage(objReg, fnReg) ==
    [action |-> "descriptors", objects |-> DOMAIN objReg, functions |-> DOMAIN fnReg,
     classes |-> EmptyMap]

\* The callable the endpoint's code has in a registered proxy: the proxy
\* function itself, or the method m of a proxy instance.
CallableOf(h, heap) ==
    IF heap[h].kind = "function"
    THEN [action |-> "fn_call", objId |-> heap[h].objId, prop |-> "", holder |-> h,
          receiver |-> h]
    ELSE [action |-> "method_call", objId |-> heap[h].objId, prop |-> "m", holder |-> 0,
          receiver |-> h]

InitChannel ==
    /\ InitCommon
    /\ immediate = TRUE
    /\ proxyFn = NoProxyFn
    /\ hostObjectRegistry = [id \in {"inst1"} |-> "instance"]
    /\ hostFunctionRegistry = [id \in FunctionTargets |-> id]
    /\ hostObjectId = [t \in FunctionTargets \cup {"instance"} |->
                           IF t = "instance" THEN "inst1" ELSE t]
    /\ proxyHeap = << >>
    /\ proxyObjectRegistry = EmptyMap

hostRest == << hostObjectRegistry, hostFunctionRegistry, hostJobs, hostLog, hostSeen,
               obj_diedDelivered >>

\* The channel's receive callback calls messageReceived(message,
\* replyChannel, context) with the event of the delivery as the context.  A call is handled up to the point where its
\* target starts to execute: the entry is looked up and the arguments are
\* deserialized, which makes the proxies.  The other messages are handled
\* whole.  A delivery while a target executes is a re-entrant one: the
\* target has invoked a sync proxy, and the peer, handling that call, calls
\* back before it replies.
Deliver(message, replyChannel) ==
    /\ deliveries < MaxDeliveries
    /\ deliveries' = deliveries + 1
    /\ lastInbound' = IF checkMarker(message) THEN "marked" ELSE "unmarked"
    /\ LET context == EventOf(deliveries + 1) IN
       IF ~checkMarker(message)
       THEN /\ SetHostState(messageReceived(message, context, HostState).hs)
            /\ UNCHANGED << asyncCallbacks, promises, regVars, handed, running, channelOf,
                            remoteDescriptors >>
       ELSE CASE message.action = "get_descriptors" ->
                  /\ currentContext' = context
                  /\ handed' = handed \cup
                        Hand(<< sendSyncIfPossible(DescriptorsMessage(hostObjectRegistry,
                                                                     hostFunctionRegistry)) >>,
                             replyChannel, "sendSync", replyChannel)
                  /\ UNCHANGED << hostRest, asyncCallbacks, promises, regVars, running,
                                  channelOf, remoteDescriptors >>
              [] message.action = "obj_died" ->
                  /\ SetHostState(messageReceived(message, context, HostState).hs)
                  /\ UNCHANGED << asyncCallbacks, promises, regVars, handed, running,
                                  channelOf, remoteDescriptors >>
              [] message.action = "fn_call" ->
                  LET d == IF MapHas(hostFunctionRegistry, message.objId)
                           THEN deserializeFunctionArgs(message.args,
                                    [reg |-> proxyObjectRegistry, heap |-> proxyHeap,
                                     flags |-> rpc_disposed, objReg |-> hostObjectRegistry])
                           ELSE [e |-> [reg |-> proxyObjectRegistry, heap |-> proxyHeap,
                                        flags |-> rpc_disposed, objReg |-> hostObjectRegistry],
                                 values |-> << >>]
                  IN  /\ currentContext' = context
                      /\ proxyObjectRegistry' = d.e.reg
                      /\ proxyHeap' = d.e.heap
                      /\ rpc_disposed' = d.e.flags
                      /\ channelOf' = [channelOf EXCEPT !.proxies =
                            NewProxyChannels(@, proxyHeap, d.e.heap, replyChannel)]
                      /\ running' = Append(running, [message |-> message,
                                                     replyChannel |-> replyChannel,
                                                     context |-> context])
                      /\ UNCHANGED << hostRest, asyncCallbacks, promises, handed,
                                      remoteDescriptors >>
    /\ UNCHANGED << immediate, callId, stack, histVars, disposals, chanVars, idVars, modeVars,
                    promiseVars, descVars, setVars >>

\* The target of the innermost inbound call returns, throws or hands back
\* its promise; callTargetFunction goes on to the replies.
TargetReturns ==
    /\ running # << >>
    /\ LET frame == running[Len(running)]
           h == CallTargetFunction(frame.message, HostState)
           started == h.hs.jobs \ hostJobs
       IN  /\ SetHostState(h.hs)
           /\ handed' = handed
                 \cup Hand(h.out, frame.replyChannel, "sendAsync", frame.replyChannel)
                 \cup Hand(IF h.reply = NoResponse THEN << >> ELSE << h.reply >>,
                         frame.replyChannel, "sendSync", frame.replyChannel)
           /\ channelOf' = [channelOf EXCEPT !.jobs =
                 [id \in (DOMAIN @) \cup { j.callId : j \in started } |->
                     IF id \in { j.callId : j \in started } THEN frame.replyChannel
                     ELSE @[id]]]
    /\ running' = SubSeq(running, 1, Len(running) - 1)
    /\ UNCHANGED << immediate, callerVars, regVars, histVars, disposals, chanVars, idVars,
                    modeVars, deliveries, lastInbound, remoteDescriptors,
                    promiseVars, descVars, setVars >>

\* The promise chain of an async inbound call runs, once no target executes.
ChainSettles(job) ==
    /\ job \in hostJobs
    /\ running = << >>
    /\ LET h == PromiseChain(job, HostState)
       IN  /\ SetHostState(h.hs)
           /\ handed' = handed \cup Hand(h.out, channelOf.jobs[job.callId], "sendAsync",
                                       channelOf.jobs[job.callId])
    /\ UNCHANGED << immediate, callerVars, regVars, histVars, disposals, chanVars, idVars,
                    modeVars, running, channelOf, deliveries, lastInbound, remoteDescriptors,
                    promiseVars, descVars, setVars >>

\* The endpoint's code invokes the sync callable of a proxy that was made
\* from an inbound message; the peer's sendSync returns response.  This and
\* the next two actions are code of the endpoint's own turns, which run
\* when no target executes.
ProxySyncCall(h, response) ==
    /\ running = << >>
    /\ proxyHeap[h].state = "live"
    /\ invocations' = invocations + 1
    /\ LET c == CallableOf(h, proxyHeap) IN
       IF IsDisposed(c, rpc_disposed)
       THEN /\ lastCall' = [call |-> c, callType |-> "sync", outcome |-> "threw",
                            value |-> ErrorToString(DisposedMessage)]
            /\ UNCHANGED << sent, handed >>
       ELSE /\ handed' = handed \cup
                  Hand(<< sendSync(CallMessage(c, "sync", "", << >>)) >>,
                       channelOf.proxies[h].call, "sendSync", channelOf.proxies[h].origin)
            /\ sent' = sent + 1
            /\ lastCall' = [call |-> c, callType |-> "sync",
                            outcome |-> SyncProxyResult(response).outcome,
                            value |-> SyncProxyResult(response).value,
                            response |-> response]
    /\ UNCHANGED << immediate, callerVars, regVars, disposals, chanVars, hostVars, idVars,
                    modeVars, running, channelOf, deliveries, lastInbound, remoteDescriptors,
                    promiseVars, descVars, setVars >>

\* The endpoint's code calls the dispose function of a proxy that was made
\* from an inbound message.
ProxyDisposed(h) ==
    /\ running = << >>
    /\ proxyHeap[h].state = "live"
    /\ disposals' = Append(disposals, h)
    /\ LET d == rpc_disposeFunc(h, [reg |-> proxyObjectRegistry, heap |-> proxyHeap,
                                    flags |-> rpc_disposed, objReg |-> EmptyMap])
       IN  /\ proxyObjectRegistry' = d.e.reg
           /\ proxyHeap' = d.e.heap
           /\ rpc_disposed' = d.e.flags
           /\ handed' = handed \cup Hand(d.out, channelOf.proxies[h].died, "sendAsync",
                                       channelOf.proxies[h].origin)
    /\ UNCHANGED << immediate, callerVars, histVars, chanVars, hostVars, idVars, modeVars,
                    running, channelOf, deliveries, lastInbound, remoteDescriptors,
                    promiseVars, descVars, setVars >>

\* requestRemoteDescriptors on a channel with sendSync: the request is
\* handed to this.channel and the peer's response goes to
\* setRemoteDescriptors.
RequestRemoteDescriptors(response) ==
    /\ running = << >>
    /\ \A s \in handed : s.message.action # "get_descriptors"
    /\ handed' = handed \cup Hand(<< sendSync([action |-> "get_descriptors"]) >>,
                                DefaultChannel, "sendSync", "none")
    /\ remoteDescriptors' = setRemoteDescriptors(response, remoteDescriptors).tables
    /\ UNCHANGED << immediate, callerVars, regVars, histVars, disposals, chanVars, hostVars,
                    idVars, modeVars, running, channelOf, deliveries, lastInbound,
                    promiseVars, descVars, setVars >>

NextChannel ==
    \/ \E message \in InboundMessages, replyChannel \in ReplyChannels :
          Deliver(message, replyChannel)
    \/ TargetReturns
    \/ \E job \in hostJobs : ChainSettles(job)
    \/ \E h \in 1..Len(proxyHeap), response \in SyncResponses :
          invocations < MaxProxyCalls /\ ProxySyncCall(h, response)
    \/ \E h \in 1..Len(proxyHeap) : Len(disposals) < MaxDisposals /\ ProxyDisposed(h)
    \/ RequestRemoteDescriptors([action |-> "descriptors", objects |-> {},
                                 functions |-> {"g"}])

SpecChannel == InitChannel /\ [][NextChannel]_vars

\* The actions of the messages handed to a channel so far.
HandedActions == { s.message.action : s \in handed }

\* C16: every message handed to a channel's sendSync or sendAsync carries
\* rpc_marker = 'srpc'.
C16_HandedMarked ==
    \A s \in handed : "rpc_marker" \in DOMAIN s.message /\ s.message.rpc_marker = "srpc"

\* C16 witness: a reply, a call through a proxy, an obj_died and a
\* get_descriptors have been handed to channels.
C16_Witness ==
    {"fn_reply", "fn_call", "obj_died", "get_descriptors"} \subseteq HandedActions

\* The step is the delivery of a message without the marker.
DeliversUnmarked == deliveries' = deliveries + 1 /\ lastInbound' = "unmarked"

\* C17: the delivery of a message without the marker changes nothing of
\* the endpoint (host registries, proxy registry, pending calls, descriptors,
\* currentContext) and hands nothing to a channel.
C17_UnmarkedChangesNothing ==
    [][DeliversUnmarked =>
          UNCHANGED << hostRest, currentContext, callerVars, regVars, remoteDescriptors,
                       channelOf, running, handed >>]_vars

\* C18: every message that is a consequence of an inbound message is handed
\* to the reply channel that message was delivered with.
C18_ThroughReplyChannel ==
    \A s \in handed : s.cause # "none" => s.channel = s.cause

\* C19: while the target of an inbound call executes, currentContext is the
\* context that call was delivered with.
C19_ContextOfRunningTarget ==
    running # << >> => currentContext = running[Len(running)].context

\* The last proxy invocation was a sync call that reached the channel.
SyncCallDone == lastCall.callType = "sync" /\ "response" \in DOMAIN lastCall

\* C20: a sync proxy call throws a protocol error when sendSync returned
\* nothing or a reply without the marker, throws the reply's result when the
\* reply has success = false, and returns the result otherwise.
C20_SyncCallOutcome ==
    SyncCallDone =>
        LET r == lastCall.response
            marked == r # NoResponse /\ "rpc_marker" \in DOMAIN r /\ r.rpc_marker = "srpc"
        IN  /\ r = NoResponse =>
                  /\ lastCall.outcome = "threw"
                  /\ lastCall.value = "Error: No response received"
            /\ (r # NoResponse /\ ~marked) =>
                  /\ lastCall.outcome = "threw"
                  /\ lastCall.value = "Error: Invalid response"
            /\ (marked /\ ~r.success) =>
                  /\ lastCall.outcome = "threw"
                  /\ lastCall.value = "Error: " \o r.result
            /\ (marked /\ r.success) =>
                  /\ lastCall.outcome = "returned"
                  /\ lastCall.value = r.result

\* C20 witness: a sync call got a reply without the marker and threw.
C20_Witness ==
    /\ SyncCallDone
    /\ lastCall.response # NoResponse
    /\ "rpc_marker" \notin DOMAIN lastCall.response
    /\ lastCall.outcome = "threw"

----------------------------------------------------------------------------
(* Promises as values.  In SpecPromise the host passes its promise, an      *)
(* instance and a function to the peer as arguments of void calls.          *)

\* What a promise of the host settles to.
Outcomes == { [status |-> "fulfilled", value |-> "done"],
              [status |-> "rejected", value |-> "BOOM"] }

\* The host's code settles its promise.
PromiseSettles(p, outcome) ==
    /\ hostPromises[p].status = "pending"
    /\ hostPromises' = [hostPromises EXCEPT ![p] = outcome]
    /\ UNCHANGED << immediate, callerVars, regVars, histVars, disposals, chanVars, hostVars,
                    idVars, modeVars, wireVars, hostThen, thenLog, descVars, setVars >>

\* The then/finally chain that processBeforeSerialization attached to a
\* promise runs once the promise has settled: the settlement is handed to
\* sendAsyncIfPossible as an async fn_reply whose callId is the objId.
ThenRuns(n) ==
    /\ n \in hostThen
    /\ hostPromises[n.promise].status # "pending"
    /\ hostThen' = hostThen \ {n}
    /\ LET success == hostPromises[n.promise].status = "fulfilled"
           msg == sendAsyncIfPossible(FnReplyAsync(n.objId, success,
                                                   hostPromises[n.promise].value))
           old == IF MapHas(thenLog, n.objId) THEN thenLog[n.objId]
                  ELSE [replies |-> 0, success |-> TRUE]
       IN  /\ thenLog' = MapSet(thenLog, n.objId,
                                [replies |-> old.replies + 1, success |-> success])
           /\ IF immediate
              THEN /\ SetProxyState(ProxyMessageReceived(msg, ProxyState))
                   /\ UNCHANGED toProxy
              ELSE /\ toProxy' = Append(toProxy, msg)
                   /\ UNCHANGED << asyncCallbacks, promises, regVars >>
    /\ UNCHANGED << immediate, callId, stack, histVars, disposals, toHost, hostVars, idVars,
                    modeVars, wireVars, hostPromises, descVars, setVars >>

NextPromise ==
    \/ \E value \in PromiseValues \cup HostValues :
          Len(hostSent) < MaxSends /\ MayMakeProxy /\ HostVoidCall(value)
    \/ ProxyReceive
    \/ HostReceive
    \/ \E h \in 1..Len(proxyHeap) : Len(disposals) < MaxLifeDisposals /\ DisposeProxy(h)
    \/ \E p \in PromiseValues, outcome \in Outcomes : PromiseSettles(p, outcome)
    \/ \E n \in hostThen : ThenRuns(n)

SpecPromise == InitLife /\ [][NextPromise]_vars

\* The promises the peer made by deserialization, as slots of promises.
DeserializedPromises == { i \in 1..Len(promises) : promises[i].call.action = "promise" }

\* The heap cell of the i-th promise made by deserialization.
PromiseHandle(i) ==
    CHOOSE h \in 1..Len(proxyHeap) :
        /\ proxyHeap[h].kind = "promise"
        /\ Cardinality({ g \in 1..h : proxyHeap[g].kind = "promise" })
              = Cardinality({ j \in DeserializedPromises : j <= i })

\* The host's promise that travelled under the id k.
PromiseOf(k) ==
    CHOOSE p \in PromiseValues : \E i \in 1..Len(hostSent) : hostSent[i] = [value |-> p, objId |-> k]

\* The state of the peer's promise that has the outcome of the host's.
SameOutcome(slot, outcome) ==
    /\ slot.status = IF outcome.status = "fulfilled" THEN "resolved" ELSE "rejected"
    /\ slot.value = outcome.value

\* C21: for a promise serialized under the id k, one async fn_reply with
\* callId k is sent once the promise has settled, with success = true iff it
\* fulfilled, and the peer's deserialized promise (one that the peer's code
\* has not disposed) settles exactly once, with the same outcome.
C21_PromiseSettlement ==
    \A i \in { j \in DeserializedPromises : PromiseHandle(j) \notin rpc_disposed } :
        LET k == promises[i].call.objId
            p == PromiseOf(k)
            done == /\ hostPromises[p].status # "pending"
                    /\ toProxy = << >>
                    /\ \A n \in hostThen : n.objId # k
        IN  /\ promises[i].settleCalls <= 1
            /\ MapHas(thenLog, k) =>
                  /\ thenLog[k].replies = 1
                  /\ thenLog[k].success <=> hostPromises[p].status = "fulfilled"
            /\ done =>
                  /\ MapHas(thenLog, k)
                  /\ promises[i].settleCalls = 1
                  /\ SameOutcome(promises[i], hostPromises[p])

\* The step serializes a value of the host into a message.
Serializes == Len(hostSent') = Len(hostSent) + 1

\* The id under which the value v last travelled, "" if it never did.
LastIdOf(v) ==
    LET sends == { i \in 1..Len(hostSent) : hostSent[i].value = v }
    IN  IF sends = {} THEN ""
        ELSE hostSent[CHOOSE i \in sends : \A j \in sends : j <= i].objId

HostEntries == Cardinality(DOMAIN hostObjectRegistry) + Cardinality(DOMAIN hostFunctionRegistry)

\* C22: serializing a function, a promise or an instance of a registered
\* class again, with no obj_died for its id in between, yields the same
\* objId, adds no entry to the host registries and attaches no further
\* settlement chain; a first serialization adds one entry.
C22_SerializeIdempotent ==
    [][Serializes =>
          LET new == hostSent'[Len(hostSent')]
              k == LastIdOf(new.value)
          IN  /\ HostEntries' <= HostEntries + 1
              /\ (k # "" /\ k \notin obj_diedDelivered) =>
                    /\ new.objId = k
                    /\ HostEntries' = HostEntries
                    /\ hostThen' = hostThen]_vars

\* C22 witness: a promise has travelled twice under one id, with one chain.
C22_Witness ==
    \E i, j \in 1..Len(hostSent) :
        /\ i < j
        /\ hostSent[i] = hostSent[j]
        /\ hostSent[i].value \in PromiseValues
        /\ hostSent[i].objId \notin obj_diedDelivered
        /\ Cardinality({ n \in hostThen : n.promise = hostSent[i].value }) = 1

----------------------------------------------------------------------------
(* SpecDescriptors: the proxy side asks for the host's descriptors, looks   *)
(* proxies up by id and constructs instances of proxy classes.  The host    *)
(* has the object "o", the function "g", class "A" with a ctor and class    *)
(* "B" without one.                                                         *)

\* Number of calls of requestRemoteDescriptors.
MaxRequests == 2
\* Number of lookups (getProxyObject, getProxyFunction, getProxyClass) and
\* constructor calls.
MaxLookups == 2

\* The ids the proxy side's code looks up: the host's, and one nobody has.
LookupIds == { "o", "g", "A", "B", "zz" }

InitDescriptors ==
    /\ InitShared
    /\ hasSendSync \in BOOLEAN
    /\ hostObjectRegistry = MapSet(EmptyMap, "o", "objA")
    /\ hostFunctionRegistry = MapSet(MapSet(EmptyMap, "g", "returns"), "A", "A")
    /\ hostObjectId = EmptyMap
    /\ proxyHeap = << >>
    /\ proxyObjectRegistry = EmptyMap
    /\ proxyFn = NoProxyFn

\* resolve / reject of the promise of request slot (0: no callbacks stored).
SettleRequest(reqs, slot, success) ==
    IF slot = 0 \/ reqs[slot].status # "pending" THEN reqs
    ELSE [reqs EXCEPT ![slot].status = IF success THEN "resolved" ELSE "rejected"]

\* messageReceived, case descriptors.  d = [tables, callbacks, reqs]; every
\* request made so far has now seen a descriptors message arrive.
DescriptorsReceived(message, d) ==
    LET r == setRemoteDescriptors(message, d.tables)
        settled == SettleRequest(d.reqs, d.callbacks, r.success)
    IN  [tables |-> r.tables, callbacks |-> 0,
         reqs |-> [i \in DOMAIN settled |-> [settled[i] EXCEPT !.answered = TRUE]]]

\* requestRemoteDescriptors on a channel with sendSync: the host handles
\* get_descriptors inside the send and its descriptors are the response;
\* answered is false when the channel's sendSync returns nothing.
RequestSync(answered) ==
    /\ hasSendSync
    /\ stack = << >>
    /\ Len(requests) < MaxRequests
    /\ LET h == messageReceived(sendSync([action |-> "get_descriptors"]), NoContext, HostState)
           response == IF answered /\ h.out # << >> THEN h.out[1] ELSE NoResponse
           r == setRemoteDescriptors(response, remoteDescriptors)
       IN  /\ SetHostState(h.hs)
           /\ remoteDescriptors' = r.tables
           /\ requests' = Append(requests,
                  [mode |-> "sync", returned |-> r.success, status |-> "none",
                   answered |-> response # NoResponse, response |-> response,
                   tables |-> r.tables])
    /\ sent' = sent + 1
    /\ UNCHANGED << immediate, callerVars, regVars, invocations, lastCall, disposals, chanVars,
                    idVars, modeVars, handed, running, channelOf, deliveries, lastInbound,
                    promiseVars, setVars, hasSendSync, remoteDescriptorsCallbacks, proxyClassRegistry >>

\* requestRemoteDescriptors on a channel without sendSync: the executor of
\* the new promise calls sendAsync, then stores the promise's resolve/reject
\* pair in remoteDescriptorsCallbacks.  On a channel that delivers inside
\* the send, the host's descriptors are received before the pair is stored.
RequestAsync ==
    /\ ~hasSendSync
    /\ stack = << >>
    /\ Len(requests) < MaxRequests
    /\ LET slot == Len(requests) + 1
           made == Append(requests,
                      [mode |-> "async", returned |-> "promise", status |-> "pending",
                       answered |-> FALSE, response |-> NoResponse, tables |-> NoDescriptors])
           msg == sendAsync([action |-> "get_descriptors"])
       IN  IF immediate
           THEN LET h == messageReceived(msg, NoContext, HostState)
                    d == DescriptorsReceived(h.out[1],
                             [tables |-> remoteDescriptors,
                              callbacks |-> remoteDescriptorsCallbacks, reqs |-> made])
                IN  /\ SetHostState(h.hs)
                    /\ remoteDescriptors' = d.tables
                    /\ requests' = d.reqs
                    /\ remoteDescriptorsCallbacks' = slot
                    /\ UNCHANGED toHost
           ELSE /\ toHost' = Append(toHost, msg)
                /\ requests' = made
                /\ remoteDescriptorsCallbacks' = slot
                /\ UNCHANGED << hostVars, remoteDescriptors >>
    /\ sent' = sent + 1
    /\ UNCHANGED << immediate, callerVars, regVars, invocations, lastCall, disposals, toProxy,
                    idVars, modeVars, handed, running, channelOf, deliveries, lastInbound,
                    promiseVars, setVars, hasSendSync, proxyClassRegistry >>

\* The proxy side's receive callback takes a descriptors message off the
\* channel.
DescriptorsReceive ==
    /\ toProxy # << >>
    /\ stack = << >>
    /\ Head(toProxy).action = "descriptors"
    /\ LET d == IF checkMarker(Head(toProxy))
                THEN DescriptorsReceived(Head(toProxy),
                         [tables |-> remoteDescriptors,
                          callbacks |-> remoteDescriptorsCallbacks, reqs |-> requests])
                ELSE [tables |-> remoteDescriptors,
                      callbacks |-> remoteDescriptorsCallbacks, reqs |-> requests]
       IN  /\ remoteDescriptors' = d.tables
           /\ remoteDescriptorsCallbacks' = d.callbacks
           /\ requests' = d.reqs
    /\ toProxy' = Tail(toProxy)
    /\ UNCHANGED << immediate, callerVars, regVars, histVars, disposals, toHost, hostVars,
                    idVars, modeVars, handed, running, channelOf, deliveries, lastInbound,
                    promiseVars, setVars, hasSendSync, proxyClassRegistry >>

\* What a lookup did for its caller.
LookupCall(name, objId, outcome, value) ==
    [call |-> [action |-> name, objId |-> objId], callType |-> "none", outcome |-> outcome,
     value |-> value]

\* A lookup that makes a proxy for any id.
LookupAny(name, kind, table, objId, e) ==
    IF RegistryGet(objId, e) # 0
    THEN [e |-> e, outcome |-> "returned", value |-> ""]
    ELSE [e |-> Register(objId, kind, FALSE, e).e, outcome |-> "returned", value |-> ""]

\* getProxyObject / getProxyFunction: the registered proxy if there is one;
\* without a descriptor for the id, a throw; else a new proxy, registered
\* without a dispose callback.
Lookup(name, kind, table, objId, e) ==
    IF RegistryGet(objId, e) # 0
    THEN [e |-> e, outcome |-> "returned", value |-> ""]
    ELSE IF objId \notin table
    THEN [e |-> e, outcome |-> "threw",
          value |-> ErrorToString("No " \o kind \o " registered with ID '" \o objId \o "'")]
    ELSE [e |-> Register(objId, kind, FALSE, e).e, outcome |-> "returned", value |-> ""]

LookupProxy(name, kind, table, objId) ==
    /\ stack = << >>
    /\ invocations' = invocations + 1
    /\ LET g == Lookup(name, kind, table, objId,
                       [reg |-> proxyObjectRegistry, heap |-> proxyHeap,
                        flags |-> rpc_disposed, objReg |-> EmptyMap])
       IN  /\ proxyObjectRegistry' = g.e.reg
           /\ proxyHeap' = g.e.heap
           /\ rpc_disposed' = g.e.flags
           /\ lastCall' = LookupCall(name, objId, g.outcome, g.value)
    /\ UNCHANGED << immediate, callerVars, sent, disposals, chanVars, hostVars, idVars,
                    modeVars, wireVars, promiseVars, descVars, setVars >>

LookupObject(objId) ==
    LookupProxy("getProxyObject", "object", remoteDescriptors.objects, objId)

LookupFunction(objId) ==
    LookupProxy("getProxyFunction", "function", remoteDescriptors.functions, objId)

\* getProxyClass: the proxy class of the id if there is one; without a class
\* descriptor, a throw; else a new proxy class, whose constructor is a proxy
\* function when the descriptor has a ctor and a function that throws when
\* it has none.
getProxyClass(classId, classes, classReg) ==
    IF MapHas(classReg, classId)
    THEN [classReg |-> classReg, outcome |-> "returned", value |-> ""]
    ELSE IF ~MapHas(classes, classId)
    THEN [classReg |-> classReg, outcome |-> "threw",
          value |-> ErrorToString("No class registered with ID '" \o classId \o "'")]
    ELSE [classReg |-> MapSet(classReg, classId, [ctor |-> classes[classId].ctor]),
          outcome |-> "returned", value |-> ""]

LookupClass(classId) ==
    /\ stack = << >>
    /\ invocations' = invocations + 1
    /\ LET g == getProxyClass(classId, remoteDescriptors.classes, proxyClassRegistry)
       IN  /\ proxyClassRegistry' = g.classReg
           /\ lastCall' = LookupCall("getProxyClass", classId, g.outcome, g.value)
    /\ UNCHANGED << immediate, callerVars, regVars, sent, disposals, chanVars, hostVars, idVars,
                    modeVars, wireVars, promiseVars, setVars, hasSendSync, remoteDescriptorsCallbacks,
                    requests >>

\* The constructor of the proxy class of classId, as a callable.
Constructor(classId) ==
    [action |-> "ctor_call", objId |-> classId, prop |-> "", holder |-> 0, receiver |-> 0]

\* Whether the constructor of a proxy class is the proxy function made for
\* descriptor.ctor.
ConstructorDefined(clazz) == clazz.ctor

\* new of a proxy class without a ctor: the function getProxyClass put in
\* its place throws.
ConstructThrows(classId) ==
    /\ invocations' = invocations + 1
    /\ lastCall' = [call |-> Constructor(classId), callType |-> "none", outcome |-> "threw",
                    value |-> ErrorToString("Constructor of class '" \o classId \o
                                            "' is not defined")]
    /\ UNCHANGED << immediate, callerVars, regVars, sent, disposals, chanVars, hostVars, idVars,
                    modeVars, wireVars, promiseVars, descVars, setVars >>

\* new of a proxy class the proxy side holds: the ctor's proxy function has
\* the default call type 'sync', re-mapped on a channel without sendSync.
Construct(classId) ==
    /\ stack = << >>
    /\ MapHas(proxyClassRegistry, classId)
    /\ IF ~ConstructorDefined(proxyClassRegistry[classId]) THEN ConstructThrows(classId)
       ELSE IF createProxyFunction("", "sync", hasSendSync, TRUE) = "sync"
       THEN SyncCall(Constructor(classId))
       ELSE AsyncCallBegin(Constructor(classId))

NextDescriptors ==
    \/ \E answered \in BOOLEAN : RequestSync(answered)
    \/ RequestAsync
    \/ DescriptorsReceive
    \/ toHost # << >> /\ HostReceive
    \/ toProxy # << >> /\ Head(toProxy).action # "descriptors" /\ ProxyReceive
    \/ \E job \in hostJobs : HostPromiseSettles(job)
    \/ AsyncCallEnd
    \/ \E objId \in LookupIds : invocations < MaxLookups /\ LookupObject(objId)
    \/ \E objId \in LookupIds : invocations < MaxLookups /\ LookupFunction(objId)
    \/ \E classId \in LookupIds : invocations < MaxLookups /\ LookupClass(classId)
    \/ \E classId \in LookupIds : invocations < MaxLookups /\ Construct(classId)

SpecDescriptors == InitDescriptors /\ [][NextDescriptors]_vars

\* C23: every promise returned by requestRemoteDescriptors is resolved once
\* a descriptors message of the peer has been received, and a sync request
\* returns true exactly when the tables of its response were stored.
C23_RequestsAnswered ==
    \A i \in 1..Len(requests) :
        /\ requests[i].mode = "async" /\ requests[i].answered
              => requests[i].status = "resolved"
        /\ requests[i].mode = "sync"
              => (requests[i].returned <=>
                     /\ requests[i].response # NoResponse
                     /\ requests[i].tables.objects = requests[i].response.objects
                     /\ requests[i].tables.functions = requests[i].response.functions
                     /\ requests[i].tables.classes = requests[i].response.classes)

\* The step is a lookup by name of id that finds neither a cached proxy nor
\* a descriptor in table.
LookupMisses(name, id, cached, table) ==
    /\ Invokes([action |-> name, objId |-> id])
    /\ ~cached
    /\ id \notin table

\* The lookup threw, with the text of the source, and left the proxy
\* registry, the proxy classes and the descriptor tables as they were.
ThrewAndKept(text) ==
    /\ lastCall'.outcome = "threw"
    /\ lastCall'.value = ErrorToString(text)
    /\ UNCHANGED << proxyObjectRegistry, proxyHeap, rpc_disposed, proxyClassRegistry,
                    remoteDescriptors, chanVars, sent >>

\* C24: a lookup of an id with neither a cached proxy nor a descriptor
\* throws and leaves the proxy registry, the proxy classes and the
\* descriptor tables unchanged; constructing a proxy class whose descriptor
\* has no ctor throws and sends nothing.
C24_LookupsThrow ==
    [][\A id \in LookupIds :
          /\ LookupMisses("getProxyObject", id,
                          RegistryGet(id, RegistryState) # 0, remoteDescriptors.objects)
                => ThrewAndKept("No object registered with ID '" \o id \o "'")
          /\ LookupMisses("getProxyFunction", id,
                          RegistryGet(id, RegistryState) # 0, remoteDescriptors.functions)
                => ThrewAndKept("No function registered with ID '" \o id \o "'")
          /\ LookupMisses("getProxyClass", id,
                          MapHas(proxyClassRegistry, id), DOMAIN remoteDescriptors.classes)
                => ThrewAndKept("No class registered with ID '" \o id \o "'")
          /\ (/\ Invokes(Constructor(id))
              /\ MapHas(proxyClassRegistry, id)
              /\ ~proxyClassRegistry[id].ctor)
                => /\ ThrewAndKept("Constructor of class '" \o id \o "' is not defined")
                   /\ UNCHANGED << callerVars, hostVars >>]_vars

\* A lookup has thrown on a side that has descriptors and proxies.
C24_Witness ==
    /\ remoteDescriptors.objects # {}
    /\ proxyObjectRegistry # EmptyMap
    /\ lastCall.call.action \in {"getProxyObject", "getProxyFunction", "getProxyClass"}
    /\ lastCall.outcome = "threw"

----------------------------------------------------------------------------
(* Further claims about the async call engine, checked under Spec.          *)

\* The slots of the async calls that emitted their message and whose proxy
\* function was disposed afterwards (a disposed function emits nothing, and
\* no dispose runs while an invocation is open).
DisposedAfterSend ==
    { i \in SentSlots : promises[i].call.holder \in rpc_disposed }

\* The fn_reply of callId id has been sent by the host and received by the
\* proxy side.
ReplyReceived(id) ==
    /\ LogOf(hostLog, id).replies >= 1
    /\ \A j \in 1..Len(toProxy) :
           ~(toProxy[j].action = "fn_reply" /\ toProxy[j].callId = id)

\* C25: an async call emitted before its proxy was disposed is not
\* cancelled: until its fn_reply is received its promise is pending with its
\* entry in asyncCallbacks, and once the reply is received the promise is
\* settled by it.
C25_DisposeCancelsNothing ==
    \A i \in DisposedAfterSend :
        IF ReplyReceived(promises[i].msgId)
        THEN promises[i].status # "pending" /\ promises[i].settledBy = promises[i].msgId
        ELSE /\ promises[i].status = "pending"
             /\ MapHas(asyncCallbacks, promises[i].msgId)
             /\ asyncCallbacks[promises[i].msgId] = i

\* The slots of the async calls whose invocation has returned its promise
\* (the message was emitted and the send has returned).
EmittedSlots == { i \in SentSlots : \A j \in 1..Len(stack) : stack[j] # i }

\* C26: asyncCallbacks holds an entry for a callId exactly while the call of
\* that id has been emitted and its fn_reply has not been received; it holds
\* no other entries, so it is empty once every call has had its reply.
C26_PendingWhileUnanswered ==
    /\ \A i \in EmittedSlots :
           MapHas(asyncCallbacks, promises[i].msgId) <=> ~ReplyReceived(promises[i].msgId)
    /\ \A k \in DOMAIN asyncCallbacks :
           \E i \in SentSlots : promises[i].msgId = k /\ asyncCallbacks[k] = i

\* The step hands the message of an async call to the channel (the second
\* part of an invocation: the send of the call on top of the stack).
EmitsAsyncCall == stack # << >> /\ stack' = SubSeq(stack, 1, Len(stack) - 1) /\ sent' = sent + 1

\* C27: an async proxy call takes an id greater than every id taken before,
\* registers its resolve/reject pair under that id, and only then hands the
\* message to the channel: the pair is registered when the message is handed
\* over.
C27_RegisteredBeforeEmit ==
    [][/\ \A i \in 1..Len(promises') :
              (i > Len(promises) /\ promises'[i].msgId # "")
                  => \A j \in SentSlots : promises[j].msgId # promises'[i].msgId
       /\ EmitsAsyncCall
              => /\ MapHas(asyncCallbacks, promises[stack[Len(stack)]].msgId)
                 /\ asyncCallbacks[promises[stack[Len(stack)]].msgId] = stack[Len(stack)]]_vars

----------------------------------------------------------------------------
(* SpecTarget: the host receives call messages of every call type, among    *)
(* them calls that make callTargetFunction throw: an unknown objId, a        *)
(* property that is not a function, an argument of a class unknown to the    *)
(* host, a target that throws.                                               *)

\* Number of call messages the host receives.
MaxInbound == 2

\* What the inbound calls are made on.
InboundCallables ==
    { [action |-> "fn_call", objId |-> id, prop |-> ""] : id \in {"returns", "throws", "zz"} }
        \cup { [action |-> "method_call", objId |-> "inst1", prop |-> p] : p \in {"m", "p"} }

\* Their argument lists: none, or one object of a class unknown to the host.
InboundArgs == { << >>, << Wire("object", "x1", "Unknown") >> }

\* The peer's call message arrives: the receive callback handles it.  The
\* sync reply is what the reply channel's sendSync was given.
HandleCall(c, callType, args) ==
    /\ deliveries' = deliveries + 1
    /\ LET msg == addMarker(CallMessage(c, callType,
                                        IF callType = "async" THEN ToString(deliveries + 1)
                                        ELSE "", args))
           h == messageReceived(msg, NoContext, HostState)
       IN  /\ SetHostState(h.hs)
           /\ toProxy' = toProxy \o h.out
           /\ lastCall' = [call |-> msg, callType |-> callType,
                           outcome |-> IF h.reply = NoResponse THEN "none" ELSE "replied",
                           value |-> "", reply |-> h.reply]
    /\ UNCHANGED << immediate, callerVars, regVars, invocations, sent, disposals, toHost,
                    idVars, modeVars, handed, running, channelOf, lastInbound,
                    remoteDescriptors, promiseVars, descVars, setVars >>

NextTarget ==
    \/ \E c \in InboundCallables, callType \in {"sync", "async", "void"}, args \in InboundArgs :
           deliveries < MaxInbound /\ HandleCall(c, callType, args)
    \/ \E job \in hostJobs : HostPromiseSettles(job)
    \/ ProxyReceive

SpecTarget == Init /\ [][NextTarget]_vars

\* The step handles a call message that makes callTargetFunction throw.
HandlesThrowing(callType) ==
    /\ deliveries' = deliveries + 1
    /\ lastCall'.callType = callType
    /\ CallTarget(lastCall'.call, hostObjectRegistry, hostFunctionRegistry).kind = "throw"

\* The error of the call the step handles, as a string.
ThrownBy(call) == CallTarget(call, hostObjectRegistry, hostFunctionRegistry).value

\* C28: a synchronous throw while the host processes a call is answered by
\* exactly one failure fn_reply of the call's mode (sync: on the sync path,
\* async: with the callId) and by nothing for a void call; a void call is
\* never answered by an fn_reply.
C28_ThrowsReported ==
    [][/\ HandlesThrowing("sync")
             => /\ lastCall'.reply = sendSync(FnReplySync(FALSE, ThrownBy(lastCall'.call)))
                /\ toProxy' = toProxy
       /\ HandlesThrowing("async")
             => /\ lastCall'.reply = NoResponse
                /\ toProxy' = Append(toProxy,
                       sendAsync(FnReplyAsync(lastCall'.call.callId, FALSE,
                                              ThrownBy(lastCall'.call))))
                /\ \A job \in hostJobs' : job.callId # lastCall'.call.callId
       /\ (deliveries' = deliveries + 1 /\ lastCall'.callType = "void")
             => /\ lastCall'.reply = NoResponse
                /\ toProxy' = toProxy
                /\ hostJobs' = hostJobs]_vars

\* An async call whose argument could not be deserialized has just been
\* answered.
C28_Witness ==
    /\ lastCall.callType = "async"
    /\ lastCall.call.action = "method_call"
    /\ lastCall.call.prop = "m"
    /\ lastCall.call.args # << >>
    /\ toProxy # << >>
    /\ toProxy[Len(toProxy)].success = FALSE
    /\ toProxy[Len(toProxy)].callId = lastCall.call.callId

----------------------------------------------------------------------------
(* SpecClass: the proxy side holds two instance proxies of one proxy class  *)
(* (ids "inst1" and "inst2") and invokes the members that createProxyObject *)
(* put on the prototype with objId null: the method m, the getter and the   *)
(* setter of the proxied property q, addEventListener and                   *)
(* removeEventListener for the event "e".                                   *)

\* Number of invocations of prototype members.
MaxMemberCalls == 2

\* What reading this[proxyObjectId] of undefined throws, as a string.
TypeErrorString == "TypeError: Cannot read properties of undefined"

\* objId ?? this[proxyObjectId], in a synthesized callable that was made
\* with objId null and is called on a proxy.
ThisProxyObjectId(this, heap) == heap[this].objId

\* A member of the prototype, invoked with the receiver this.
PrototypeCallable(action, prop, this) ==
    [action |-> action, objId |-> ThisProxyObjectId(this, proxyHeap), prop |-> prop,
     holder |-> 0, receiver |-> this]

InitClass ==
    /\ InitCommon
    /\ proxyFn = NoProxyFn
    /\ hostObjectRegistry = MapSet(MapSet(EmptyMap, "inst1", "instance"), "inst2", "instance2")
    /\ hostFunctionRegistry = EmptyMap
    /\ hostObjectId = MapSet(MapSet(EmptyMap, "instance", "inst1"), "instance2", "inst2")
    /\ proxyHeap = << Cell("inst1", "instance", TRUE), Cell("inst2", "instance", TRUE) >>
    /\ proxyObjectRegistry = MapSet(MapSet(EmptyMap, "inst1", 1), "inst2", 2)

\* instance.m(): the method is called on the instance.
InvokeMethod(h) == AsyncCallBegin(PrototypeCallable("method_call", "m", h))

\* instance.q: the getter is called on the instance.
GetProperty(h) == SyncCall(PrototypeCallable("prop_get", "q", h))

\* instance.q = value: the setter is called on the instance.
SetProperty(h) == SyncCall(PrototypeCallable("prop_set", "q", h))

\* instance.addEventListener(eventName, listener) and removeEventListener:
\* after the check of the event's name, the proxy function of
\* add_<eventName> / remove_<eventName> is looked up or made (returns is what
\* the event's descriptor declares) and called as proxyFunc(listener), a
\* plain call.  A void or sync proxy function throws at once when it reads
\* this[proxyObjectId]; an async one has taken a callId by then and throws
\* inside its promise's executor: the promise, which addEventListener drops,
\* is rejected.  No message is made.
ListenerCall(addOrRemove, h, eventName, returns) ==
    /\ stack = << >>
    /\ invocations' = invocations + 1
    /\ LET c == [action |-> "method_call", objId |-> "", prop |-> addOrRemove \o "_" \o eventName,
                 holder |-> 0, receiver |-> h]
           callType == createProxyFunction(returns, "async", TRUE, TRUE)
       IN  IF eventName # "e"
           THEN /\ lastCall' = [call |-> c, callType |-> "none", outcome |-> "threw",
                                value |-> ErrorToString("No event found on object")]
                /\ UNCHANGED << callId, promises >>
           ELSE IF callType = "async"
           THEN /\ callId' = callId + 1
                /\ promises' = Append(promises,
                       [msgId |-> "", call |-> c, status |-> "rejected",
                        value |-> TypeErrorString, settledBy |-> "", settleCalls |-> 1])
                /\ lastCall' = [call |-> c, callType |-> callType, outcome |-> "returned",
                                value |-> ""]
           ELSE /\ lastCall' = [call |-> c, callType |-> callType, outcome |-> "threw",
                                value |-> TypeErrorString]
                /\ UNCHANGED << callId, promises >>
    /\ UNCHANGED << immediate, asyncCallbacks, stack, regVars, sent, disposals, chanVars,
                    hostVars, idVars, modeVars, wireVars, promiseVars, descVars, setVars >>

NextClass ==
    \/ \E h \in 1..Len(proxyHeap) : invocations < MaxMemberCalls /\ InvokeMethod(h)
    \/ AsyncCallEnd
    \/ \E h \in 1..Len(proxyHeap) : invocations < MaxMemberCalls /\ GetProperty(h)
    \/ \E h \in 1..Len(proxyHeap) : invocations < MaxMemberCalls /\ SetProperty(h)
    \/ \E h \in 1..Len(proxyHeap), addOrRemove \in {"add", "remove"},
          eventName \in {"e", "other"}, returns \in {"", "void"} :
           invocations < MaxMemberCalls /\ ListenerCall(addOrRemove, h, eventName, returns)
    \/ HostReceive
    \/ \E job \in hostJobs : HostPromiseSettles(job)
    \/ ProxyReceive

SpecClass == InitClass /\ [][NextClass]_vars

\* The members of the prototype: what their invocations are recorded as.
PrototypeMembers ==
    { [action |-> "method_call", prop |-> "m"], [action |-> "prop_get", prop |-> "q"],
      [action |-> "prop_set", prop |-> "q"], [action |-> "method_call", prop |-> "add_e"],
      [action |-> "method_call", prop |-> "remove_e"] }

\* The step is an invocation of member on the instance proxy h.
InvokesMember(member, h) ==
    /\ invocations' = invocations + 1
    /\ lastCall'.call.action = member.action
    /\ lastCall'.call.prop = member.prop
    /\ lastCall'.call.receiver = h

\* The invocation makes a call message for objId: a sync call hands it over
\* in the step, an async call has it on the stack for the send that follows.
MakesMessageFor(objId) ==
    /\ lastCall'.call.objId = objId
    /\ \/ sent' = sent + 1
       \/ /\ stack' = Append(stack, Len(promises'))
          /\ promises'[Len(promises')].call = lastCall'.call
          /\ promises'[Len(promises')].msgId # ""

\* C29: every callable synthesized on the prototype of a proxy class,
\* invoked on the instance proxy of id k, makes a message with objId k.
C29_OwnIdOfInstance ==
    [][\A member \in PrototypeMembers, h \in 1..Len(proxyHeap) :
           InvokesMember(member, h) => MakesMessageFor(proxyHeap[h].objId)]_vars

----------------------------------------------------------------------------
(* SpecEvent: the host receives the method calls add_<e> and remove_<e>,    *)
(* and on_<e>, for every event name e, on an object that has                *)
(* addEventListener and removeEventListener ("emitter", id em1) and on one  *)
(* that has not ("instance", id inst1).  Neither has a member or a function *)
(* descriptor of such a name.                                               *)

\* Number of event calls the host receives.
MaxEventCalls == 1

InitEvent ==
    /\ InitCommon
    /\ proxyFn = NoProxyFn
    /\ hostObjectRegistry = MapSet(MapSet(EmptyMap, "em1", "emitter"), "inst1", "instance")
    /\ hostFunctionRegistry = EmptyMap
    /\ hostObjectId = MapSet(MapSet(EmptyMap, "emitter", "em1"), "instance", "inst1")
    /\ proxyHeap = << >>
    /\ proxyObjectRegistry = EmptyMap

\* The calls createProxyObject's addEventListener and removeEventListener
\* make, and the same with another word.
EventCallables ==
    { [action |-> "method_call", objId |-> id, prop |-> StringOf(t)] :
          id \in {"em1", "inst1"}, t \in EventProps }

\* Their argument list: the listener, a function of the peer.
ListenerArgs == << Wire("function", "l1", "") >>

NextEvent ==
    \/ \E c \in EventCallables, callType \in {"sync", "async", "void"} :
           deliveries < MaxEventCalls /\ HandleCall(c, callType, ListenerArgs)
    \/ \E job \in hostJobs : HostPromiseSettles(job)
    \/ ProxyReceive

SpecEvent == InitEvent /\ [][NextEvent]_vars

\* The step handles the call word_<e> on the object of id objId.
HandlesEventCall(word, e, objId) ==
    /\ deliveries' = deliveries + 1
    /\ lastCall'.call.action = "method_call"
    /\ lastCall'.call.objId = objId
    /\ lastCall'.call.prop = StringOf(<< word, "_" >> \o e)

\* What callTargetFunction makes of the call: the function it applies, the
\* receiver and the arguments, or the error.
Applied(call) == CallTarget(call, hostObjectRegistry, hostFunctionRegistry)

\* The failure the call type's reply path carries: a sync reply, an async
\* reply, nothing for a void call.
FailsWith(call, text) ==
    CASE call.callType = "sync" ->
            /\ lastCall'.reply = sendSync(FnReplySync(FALSE, ErrorToString(text)))
            /\ toProxy' = toProxy
      [] call.callType = "async" ->
            /\ lastCall'.reply = NoResponse
            /\ toProxy' = Append(toProxy,
                   sendAsync(FnReplyAsync(call.callId, FALSE, ErrorToString(text))))
      [] call.callType = "void" ->
            /\ lastCall'.reply = NoResponse
            /\ toProxy' = toProxy

\* The listener as the target receives it.
DeserializedListener ==
    deserializeFunctionArgs(ListenerArgs, HostEndpoint(hostObjectRegistry)).values[1]

\* The call add_<e> / remove_<e> on the object of id objId is handled as
\* target.addEventListener(e, listener) / target.removeEventListener(e,
\* listener).
ListenerApplied(word, e, objId) ==
    HandlesEventCall(word, e, objId)
        => /\ Applied(lastCall'.call).kind = "value"
           /\ Applied(lastCall'.call).fn = word \o "EventListener"
           /\ Applied(lastCall'.call).scope = hostObjectRegistry[objId]
           /\ hostSeen' = << [objId |-> "", value |-> StringValue(StringOf(e))],
                             DeserializedListener >>

\* C30: a method call add_<e> or remove_<e> on a host object that has no
\* function descriptor and no member of that name invokes the target's
\* addEventListener or removeEventListener with the target as receiver, e
\* as the first argument and the deserialized listener as the second, for
\* every event name e, names with an underscore included; on a target
\* without the listener method the call fails with the 'is not a function'
\* error through the reply path of its call type.
C30_EventCallsReachListeners ==
    [][\A word \in {"add", "remove"}, e \in EventNames :
          /\ ListenerApplied(word, e, "em1")
          /\ HandlesEventCall(word, e, "inst1")
                => FailsWith(lastCall'.call,
                             "Property " \o StringOf(<< word, "_" >> \o e)
                                 \o " is not a function on object inst1")]_vars

----------------------------------------------------------------------------
(* SpecSet: one endpoint hosts the object "objA" (id o) with the properties *)
(* q, whose getter is declared sync, and qa, whose getter is declared       *)
(* async.  The peer sets them, with void and sync calls, to a primitive or  *)
(* to one of its promises, and settles its promises.  The endpoint's        *)
(* channel has a sendSync or has none (hasSendSync); a sync call arrives    *)
(* only through a channel that has one.                                     *)

\* Number of prop_set messages the endpoint receives.
MaxSets == 2

\* descr?.get?.returns === 'async', for the properties of "objA".
GetterAsync(prop) == prop = "qa"

\* The values the peer sets: a primitive and two promises, in wire form.
SetWires == { Wire("primitive", "v", ""), Wire("object", "p1", "Promise"),
              Wire("object", "p2", "Promise") }

InitSet ==
    /\ InitShared
    /\ hasSendSync \in BOOLEAN
    /\ proxyFn = NoProxyFn
    /\ hostObjectRegistry = MapSet(EmptyMap, "o", "objA")
    /\ hostFunctionRegistry = EmptyMap
    /\ hostObjectId = MapSet(EmptyMap, "objA", "o")
    /\ proxyHeap = << >>
    /\ proxyObjectRegistry = EmptyMap

\* The promise of the heap cell h, as a slot of promises: the one its
\* executor made.
PromiseSlot(h, ps) ==
    CHOOSE i \in 1..Len(ps.pr) :
        /\ ps.pr[i].call = [action |-> "promise", objId |-> ps.heap[h].objId]
        /\ \A j \in 1..Len(ps.pr) : ps.pr[j].call = ps.pr[i].call => j <= i

\* result?.constructor === Promise, for a deserialized value.
IsPromise(value, ps) == value.type = "proxy" /\ ps.heap[value.h].kind = "promise"

\* A prop_set that tests the getter's declaration only, not the reply
\* channel's sendSync.
PropSetByGetterOnly(msg, ps, sendSyncDefined) ==
    LET d == processAfterDeserialization(msg.args[1],
                 [reg |-> ps.reg, heap |-> ps.heap, flags |-> ps.flags,
                  objReg |-> hostObjectRegistry])
        made == PromiseExecutors(Len(ps.heap) + 1,
                    [ps EXCEPT !.reg = d.e.reg, !.heap = d.e.heap, !.flags = d.e.flags])
    IN  [ps |-> made, value |-> d.value,
         then |-> IsPromise(d.value, made) /\ GetterAsync(msg.prop)]

\* callTargetFunction, case prop_set: the value is deserialized (a promise
\* of the peer becomes a promise whose resolve/reject pair is stored under
\* its objId); a promise is given a then-reaction when the getter is
\* declared async or the reply channel has no sendSync, every other value
\* is assigned.  The result is the new ps, the value, and whether the
\* assignment was left to the reaction.
PropSet(msg, ps, sendSyncDefined) ==
    LET d == processAfterDeserialization(msg.args[1],
                 [reg |-> ps.reg, heap |-> ps.heap, flags |-> ps.flags,
                  objReg |-> hostObjectRegistry])
        made == PromiseExecutors(Len(ps.heap) + 1,
                    [ps EXCEPT !.reg = d.e.reg, !.heap = d.e.heap, !.flags = d.e.flags])
    IN  [ps |-> made, value |-> d.value,
         then |-> IsPromise(d.value, made) /\ (GetterAsync(msg.prop) \/ ~sendSyncDefined)]

\* The peer's prop_set message arrives and is handled: the property is
\* assigned or the reaction attached, and a sync call is answered (the
\* handler's own result is undefined).
HandlePropSet(prop, wire, callType) ==
    /\ deliveries' = deliveries + 1
    /\ LET msg == addMarker(CallMessage([action |-> "prop_set", objId |-> "o", prop |-> prop],
                                        callType, "", << wire >>))
           r == PropSet(msg, ProxyState, hasSendSync)
       IN  /\ SetProxyState(r.ps)
           /\ IF r.then
              THEN /\ propertyThens' = propertyThens \cup
                          { [slot |-> PromiseSlot(r.value.h, r.ps), prop |-> prop,
                             n |-> deliveries + 1] }
                   /\ UNCHANGED targetProperty
              ELSE /\ targetProperty' = [targetProperty EXCEPT ![prop] = r.value]
                   /\ UNCHANGED propertyThens
           /\ lastCall' = [call |-> msg, callType |-> callType,
                           outcome |-> IF callType = "sync" THEN "replied" ELSE "none",
                           value |-> "",
                           reply |-> IF callType = "sync" THEN sendSync(FnReplySync(TRUE, ""))
                                     ELSE NoResponse]
    /\ UNCHANGED << immediate, callId, stack, invocations, sent, disposals, toHost, toProxy,
                    hostVars, idVars, modeVars, handed, running, channelOf, lastInbound,
                    remoteDescriptors, promiseVars, descVars >>

\* The peer's promise of id objId settles: the peer's then/finally chain
\* hands the settlement to its channel, once.
PeerSettles(objId, outcome) ==
    /\ MapHas(proxyObjectRegistry, objId)
    /\ ~MapHas(thenLog, objId)
    /\ thenLog' = MapSet(thenLog, objId,
                         [replies |-> 1, success |-> outcome.status = "fulfilled"])
    /\ toProxy' = Append(toProxy, sendAsyncIfPossible(
                       FnReplyAsync(objId, outcome.status = "fulfilled", outcome.value)))
    /\ UNCHANGED << immediate, callerVars, regVars, histVars, disposals, toHost, hostVars,
                    idVars, modeVars, wireVars, hostPromises, hostThen, descVars, setVars >>

\* A reaction attached by prop_set runs, after its promise has settled and
\* after the reactions attached to the same promise before it: a resolved
\* promise's value is assigned, a rejection assigns nothing.
PropertyThenRuns(t) ==
    /\ t \in propertyThens
    /\ promises[t.slot].status # "pending"
    /\ \A u \in propertyThens : u.slot = t.slot => u.n >= t.n
    /\ propertyThens' = propertyThens \ {t}
    /\ targetProperty' = IF promises[t.slot].status = "resolved"
                         THEN [targetProperty EXCEPT
                                  ![t.prop] = StringValue(promises[t.slot].value)]
                         ELSE targetProperty
    /\ UNCHANGED << immediate, callerVars, regVars, histVars, disposals, chanVars, hostVars,
                    idVars, modeVars, wireVars, promiseVars, descVars >>

NextSet ==
    \/ \E prop \in {"q", "qa"}, wire \in SetWires, callType \in {"void", "sync"} :
           /\ deliveries < MaxSets
           /\ callType = "sync" => hasSendSync
           /\ HandlePropSet(prop, wire, callType)
    \/ \E objId \in {"p1", "p2"}, outcome \in Outcomes : PeerSettles(objId, outcome)
    \/ ProxyReceive
    \/ \E t \in propertyThens : PropertyThenRuns(t)

SpecSet == InitSet /\ [][NextSet]_vars

\* The step handles a prop_set message.
HandlesSet == deliveries' = deliveries + 1 /\ lastCall'.call.action = "prop_set"

\* The value of the handled prop_set is a promise that has to settle before
\* the assignment: the getter is declared async or the channel has no
\* sendSync.
AssignsOnSettle(call) ==
    /\ call.args[1].classId = "Promise"
    /\ GetterAsync(call.prop) \/ ~hasSendSync

\* The deserialized value of the handled prop_set: the primitive itself, or
\* the promise registered under the wire form's objId.
ReceivedValue(call) ==
    IF call.args[1].rpc_type = "primitive" THEN StringValue(call.args[1].objId)
    ELSE ProxyValue(proxyObjectRegistry'[call.args[1].objId])

\* C31: the handler of prop_set leaves the property alone and the
\* assignment to the promise's settlement exactly when the value is a
\* promise and the getter is declared async or the reply channel has no
\* sendSync; otherwise the property holds the deserialized value (the
\* promise object for a promise) when the handler returns.  Any other
\* assignment is that of a resolved promise's value, after the settlement.
C31_AssignedOnSettle ==
    [][/\ HandlesSet /\ AssignsOnSettle(lastCall'.call)
             => /\ targetProperty' = targetProperty
                /\ \E t \in propertyThens' \ propertyThens :
                       /\ t.prop = lastCall'.call.prop
                       /\ promises'[t.slot].call.objId = lastCall'.call.args[1].objId
       /\ HandlesSet /\ ~AssignsOnSettle(lastCall'.call)
             => /\ targetProperty' = [targetProperty EXCEPT
                                         ![lastCall'.call.prop] = ReceivedValue(lastCall'.call)]
                /\ propertyThens' = propertyThens
       /\ ~HandlesSet /\ targetProperty' # targetProperty
             => \E t \in propertyThens \ propertyThens' :
                   /\ promises[t.slot].status = "resolved"
                   /\ targetProperty' = [targetProperty EXCEPT
                          ![t.prop] = StringValue(promises[t.slot].value)]]_vars

\* C31 witness: through a channel with sendSync, qa (async getter) has the
\* value its promise resolved to and q (sync getter) holds a promise object.
C31_Witness ==
    /\ hasSendSync
    /\ targetProperty["qa"] = StringValue("done")
    /\ targetProperty["q"].type = "proxy"
    /\ proxyHeap[targetProperty["q"].h].kind = "promise"

----------------------------------------------------------------------------
(* Further claims about the host's replies, checked under Spec.             *)

\* The promise chains of async calls that the step runs and whose value the
\* serialization throws on.
FailedSerializations ==
    { job \in hostJobs \ hostJobs' : job.kind = "value" /\ SerializationThrows(job.value) }

\* C32: when the serialization of an async call's result throws, the host
\* emits one fn_reply with success = false for the call's callId.
C32_SerializationFailureReported ==
    [][\A job \in FailedSerializations :
          /\ LogOf(hostLog', job.callId).replies = LogOf(hostLog, job.callId).replies + 1
          /\ LogOf(hostLog', job.callId).failed]_vars

\* C35: when an async proxy call hands its message to the channel and stores
\* its resolve/reject pair, the pair is stored under the callId that message
\* carries, and no entry of another call that is still in asyncCallbacks is
\* replaced by it.  It fails when a second async call started while the
\* first call's arguments were being serialized has advanced callId.
C35_StoredUnderOwnCallId ==
    [][EmitsAsyncCall
          => LET slot == stack[Len(stack)]
             IN  /\ MapHas(asyncCallbacks', promises[slot].msgId)
                 /\ asyncCallbacks'[promises[slot].msgId] = slot
                 /\ \A k \in DOMAIN asyncCallbacks :
                        MapHas(asyncCallbacks', k) /\ asyncCallbacks[k] # slot
                            => asyncCallbacks'[k] = asyncCallbacks[k]]_vars

----------------------------------------------------------------------------
(* SpecPush: the peer pushes descriptors messages that carry some of the    *)
(* three tables; the proxy side looks proxies up by id and disposes         *)
(* proxies it holds.                                                        *)

\* Number of descriptors messages the peer pushes.
MaxPushes == 2

\* A descriptors message that carries the tables of fields; objects is its
\* objects table if it has one.
PushOf(fields, objects) ==
    [f \in {"action"} \cup fields |->
        CASE f = "action"    -> "descriptors"
          [] f = "objects"   -> objects
          [] f = "functions" -> {"g"}
          [] f = "classes"   -> HostClasses]

\* The descriptors messages of the peer: each carries the tables of a set
\* of fields, its objects table with or without the object "o".
PushedMessages ==
    { PushOf(fields, objects) : fields \in SUBSET {"objects", "functions", "classes"},
                               objects \in { {}, {"o"} } }

\* The peer's sendRemoteDescriptors hands a descriptors message to the
\* channel (one is in flight at a time).
PeerPushes(message) ==
    /\ toProxy = << >>
    /\ deliveries < MaxPushes
    /\ deliveries' = deliveries + 1
    /\ toProxy' = << sendSyncIfPossible(message) >>
    /\ UNCHANGED << immediate, callerVars, regVars, histVars, disposals, toHost, hostVars,
                    idVars, modeVars, handed, running, channelOf, lastInbound,
                    remoteDescriptors, promiseVars, descVars, setVars >>

NextPush ==
    \/ \E message \in PushedMessages : PeerPushes(message)
    \/ DescriptorsReceive
    \/ \E objId \in LookupIds : invocations < MaxLookups /\ LookupObject(objId)
    \/ \E objId \in LookupIds : invocations < MaxLookups /\ LookupFunction(objId)
    \/ \E classId \in LookupIds : invocations < MaxLookups /\ LookupClass(classId)
    \/ \E h \in 1..Len(proxyHeap) : Len(disposals) < MaxDisposals /\ DisposeProxy(h)

\* The channel of this specification has a sendSync and queues what
\* sendAsync is given; neither is used.
InitPush == InitDescriptors /\ hasSendSync /\ ~immediate

SpecPush == InitPush /\ [][NextPush]_vars

\* The step handles the descriptors message at the head of the channel.
HandlesDescriptors ==
    /\ toProxy # << >>
    /\ toProxy' = Tail(toProxy)
    /\ Head(toProxy).action = "descriptors"

\* The step is the lookup by name of id.
LooksUp(name, id) == Invokes([action |-> name, objId |-> id])

\* C33: handling a descriptors message sets each of the three caches to the
\* table the message carries and leaves a cache whose table the message
\* does not carry as it was; a lookup succeeds exactly for the ids in its
\* cache and the ids that have a live cached proxy.
C33_CachesAndLookups ==
    [][/\ HandlesDescriptors
             => \A t \in {"objects", "functions", "classes"} :
                    remoteDescriptors'[t] = IF t \in DOMAIN Head(toProxy)
                                            THEN Head(toProxy)[t] ELSE remoteDescriptors[t]
       /\ \A id \in LookupIds :
             /\ LooksUp("getProxyObject", id)
                   => (lastCall'.outcome = "returned"
                         <=> \/ id \in remoteDescriptors.objects
                             \/ RegistryGet(id, RegistryState) # 0)
             /\ LooksUp("getProxyFunction", id)
                   => (lastCall'.outcome = "returned"
                         <=> \/ id \in remoteDescriptors.functions
                             \/ RegistryGet(id, RegistryState) # 0)
             /\ LooksUp("getProxyClass", id)
                   => (lastCall'.outcome = "returned"
                         <=> \/ MapHas(remoteDescriptors.classes, id)
                             \/ MapHas(proxyClassRegistry, id))]_vars

\* C33 witness: after a message that carried an empty objects table and no
\* functions table, the lookup of "o" returned its cached proxy.
C33_Witness ==
    /\ remoteDescriptors.objects = {}
    /\ remoteDescriptors.functions = {"g"}
    /\ lastCall.call = [action |-> "getProxyObject", objId |-> "o"]
    /\ lastCall.outcome = "returned"
    /\ RegistryGet("o", RegistryState) # 0

----------------------------------------------------------------------------
(* SpecDied: one endpoint receives call messages of every call type whose   *)
(* argument becomes a proxy, through reply channels that have both send     *)
(* functions or one of them; it receives the peer's descriptors and looks   *)
(* proxies up; its code disposes the proxies it holds.                      *)

\* The reply channels of the deliveries, named by the functions they have.
CapChannels == { "both", "asyncOnly", "syncOnly" }

\* channel?.sendSync and channel?.sendAsync, as booleans.
HasSendSync(channel) == channel # "asyncOnly"
HasSendAsync(channel) == channel # "syncOnly"

\* A choice that prefers the channel's sendSync.
SyncIfPossibleFn(channel) == IF HasSendSync(channel) THEN "sendSync" ELSE "sendAsync"

\* sendAsyncIfPossible: the send function the message is given to.
AsyncIfPossibleFn(channel) == IF HasSendAsync(channel) THEN "sendAsync" ELSE "sendSync"

\* Number of call messages the endpoint receives.
MaxArrivals == 2

\* The peer's calls of the endpoint's function "returns", with an instance
\* or a function of the peer as the argument; "g" is also the id of a
\* function in the peer's descriptors.
DiedCalls ==
    { PeerCall("returns", callType, IF callType = "async" THEN "7" ELSE "", << wire >>) :
        callType \in {"void", "sync", "async"},
        wire \in { Wire("object", "o1", "A"), Wire("function", "g", "") } }

\* The peer's call message arrives with replyChannel, the one channel the
\* peer's messages of a behaviour come through, and is handled: the
\* argument is deserialized, which makes its proxy with replyChannel as the
\* channel of sendObjectDied, the target returns, and the reply of a sync
\* call is handed to sendSync; that of an async call is left to the promise
\* chain.
Arrives(message, replyChannel) ==
    /\ deliveries < MaxArrivals
    /\ hostJobs = {}
    /\ \A h \in DOMAIN channelOf.proxies : channelOf.proxies[h].died = replyChannel
    /\ deliveries' = deliveries + 1
    /\ LET d == deserializeFunctionArgs(message.args,
                    [reg |-> proxyObjectRegistry, heap |-> proxyHeap,
                     flags |-> rpc_disposed, objReg |-> hostObjectRegistry])
           h == messageReceived(message, NoContext, HostState)
           started == h.hs.jobs \ hostJobs
       IN  /\ proxyObjectRegistry' = d.e.reg
           /\ proxyHeap' = d.e.heap
           /\ rpc_disposed' = d.e.flags
           /\ SetHostState(h.hs)
           /\ handed' = handed
                 \cup Hand(h.out, replyChannel, "sendAsync", replyChannel)
                 \cup Hand(IF h.reply = NoResponse THEN << >> ELSE << h.reply >>,
                           replyChannel, "sendSync", replyChannel)
           /\ channelOf' =
                 [proxies |-> NewProxyChannels(channelOf.proxies, proxyHeap, d.e.heap,
                                               replyChannel),
                  jobs |-> [id \in (DOMAIN channelOf.jobs) \cup { j.callId : j \in started } |->
                               IF id \in { j.callId : j \in started } THEN replyChannel
                               ELSE channelOf.jobs[id]]]
    /\ UNCHANGED << immediate, callerVars, histVars, disposals, chanVars, idVars, modeVars,
                    running, lastInbound, remoteDescriptors, promiseVars, descVars, setVars >>

\* The endpoint's code calls the dispose function of a proxy it holds:
\* sendObjectDied, the dispose callback of the proxies that deserialization
\* made, gives obj_died to sendAsyncIfPossible with the reply channel of the
\* message the proxy came in.
ProxyDies(h) ==
    /\ running = << >>
    /\ stack = << >>
    /\ proxyHeap[h].state = "live"
    /\ disposals' = Append(disposals, h)
    /\ LET d == rpc_disposeFunc(h, [reg |-> proxyObjectRegistry, heap |-> proxyHeap,
                                    flags |-> rpc_disposed, objReg |-> EmptyMap])
       IN  /\ proxyObjectRegistry' = d.e.reg
           /\ proxyHeap' = d.e.heap
           /\ rpc_disposed' = d.e.flags
           /\ handed' = IF d.out = << >> THEN handed
                        ELSE handed \cup Hand(d.out, channelOf.proxies[h].died,
                                              AsyncIfPossibleFn(channelOf.proxies[h].died),
                                              channelOf.proxies[h].origin)
    /\ UNCHANGED << immediate, callerVars, histVars, chanVars, hostVars, idVars, modeVars,
                    running, channelOf, deliveries, lastInbound, remoteDescriptors,
                    promiseVars, descVars, setVars >>

NextDied ==
    \/ \E message \in DiedCalls, replyChannel \in CapChannels : Arrives(message, replyChannel)
    \/ \E job \in hostJobs : ChainSettles(job)
    \/ PeerPushes(PushOf({"objects", "functions", "classes"}, {"o"}))
    \/ DescriptorsReceive
    \/ invocations < MaxLookups /\ LookupObject("o")
    \/ invocations < MaxLookups /\ LookupFunction("g")
    \/ \E h \in 1..Len(proxyHeap) : Len(disposals) < MaxLifeDisposals /\ ProxyDies(h)

SpecDied == InitChannel /\ [][NextDied]_vars

\* The step runs the dispose function of the proxy h.
Dies(h) == disposals' = Append(disposals, h)

\* The proxy h was made by the deserialization of an inbound message.
Deserialized(h) == h \in DOMAIN channelOf.proxies

\* The obj_died of the proxy h, handed to fn of its channel.
ObjDiedOf(h, fn) ==
    [message |-> [rpc_marker |-> "srpc", action |-> "obj_died",
                  objId |-> proxyHeap[h].objId],
     channel |-> channelOf.proxies[h].died, fn |-> fn,
     cause |-> channelOf.proxies[h].origin]

\* C34: the dispose function of a proxy made by deserialization hands one
\* obj_died to the sendAsync of the proxy's channel when the channel has a
\* sendAsync and to its sendSync when it has none, whatever the call type
\* of the message the proxy came in; that of a proxy made by getProxyObject
\* or getProxyFunction hands nothing.
C34_ObjDiedAsync ==
    [][\A h \in 1..Len(proxyHeap) :
          Dies(h) =>
             IF Deserialized(h)
             THEN LET fn == IF HasSendAsync(channelOf.proxies[h].died) THEN "sendAsync"
                            ELSE "sendSync"
                  IN  /\ ObjDiedOf(h, fn) \in handed'
                      /\ handed' \ handed \subseteq { ObjDiedOf(h, fn) }
             ELSE handed' = handed]_vars

\* C34 witness: a proxy that came in a sync call through a channel with
\* both functions has died by sendAsync, one of a channel without sendAsync
\* by sendSync, and a proxy made by a lookup was disposed.
C34_Witness ==
    /\ \E s \in handed : /\ s.message.action = "obj_died"
                          /\ s.channel = "syncOnly" /\ s.fn = "sendSync"
    /\ \E h \in 1..Len(proxyHeap) :
          /\ h \in rpc_disposed
          /\ ~Deserialized(h)

----------------------------------------------------------------------------
(* SpecKept: the host object "objA", registered with registerHostObject    *)
(* under the id "objA", is also passed to the peer as a value.  It is an    *)
(* instance of a registered class, so it travels as an object reference.    *)

\* The values the host passes: the registered object and the unregistered
\* instance and function.
KeptValues == HostValues \cup { "objA" }

NextKept ==
    \/ \E value \in KeptValues : Len(hostSent) < MaxSends /\ MayMakeProxy /\ HostVoidCall(value)
    \/ MayMakeProxy /\ GetProxyObject("objA")
    \/ ProxyReceive
    \/ HostReceive
    \/ \E h \in 1..Len(proxyHeap) : Len(disposals) < MaxLifeDisposals /\ DisposeProxy(h)

SpecKept == InitLife /\ [][NextKept]_vars

\* C36: the entry that registerHostObject made for "objA" stays in the host
\* object registry whatever the peer's proxies do: sends of the object,
\* proxies made for it, their disposal and the obj_died messages that
\* follow never delete it.
C36_ExplicitEntryKept ==
    MapHas(hostObjectRegistry, "objA") /\ hostObjectRegistry["objA"] = "objA"

----------------------------------------------------------------------------
(* SpecCarrier: the host passes its promise, settled or pending, to the     *)
(* peer as the argument of a void call; the settlement follows as the       *)
(* async fn_reply of the chain that serialization attached.                 *)

\* The chains whose callbacks have run by the time the serializing call
\* hands its message to the channel: none, the callbacks given to then and
\* finally run in later jobs, also on a promise that has already settled.
\* The variant runs the chain of a settled promise at once.
RunBeforeSendSettled(attached, hp) == { n \in attached : hp[n.promise].status # "pending" }

RunBeforeSend(attached, hp) == {}

\* The fn_reply that the chain n sends for its settled promise.
SettlementOf(n, hp) ==
    sendAsyncIfPossible(FnReplyAsync(n.objId, hp[n.promise].status = "fulfilled",
                                     hp[n.promise].value))

\* thenLog after the chains in ran have sent their replies.
SettlementsLogged(log, ran, hp) ==
    [k \in (DOMAIN log) \cup { n.objId : n \in ran } |->
        IF \E n \in ran : n.objId = k
        THEN [replies |-> (IF MapHas(log, k) THEN log[k].replies ELSE 0) + 1,
              success |-> \E n \in ran : n.objId = k /\ hp[n.promise].status = "fulfilled"]
        ELSE log[k]]

\* The host's code calls the peer's function with value as the argument:
\* the value is serialized, which attaches the chain to a promise not yet
\* registered, and the call message is handed to the channel.
HostPasses(value) ==
    /\ LET s == processBeforeSerialization(TargetValue(value),
                    [objReg |-> hostObjectRegistry, fnReg |-> hostFunctionRegistry,
                     stamp |-> hostObjectId, gen |-> idCounter, heap |-> << >>])
           ran == RunBeforeSend(s.attached, hostPromises)
           msgs == (IF ran = {} THEN << >>
                    ELSE << SettlementOf(CHOOSE n \in ran : TRUE, hostPromises) >>)
                   \o << sendAsyncIfPossible(
                             [action |-> "fn_call", callType |-> "void", objId |-> "cb",
                              prop |-> "", callId |-> "", args |-> << s.wire >>]) >>
       IN  /\ hostObjectRegistry' = s.st.objReg
           /\ hostFunctionRegistry' = s.st.fnReg
           /\ hostObjectId' = s.st.stamp
           /\ idCounter' = s.st.gen
           /\ hostSent' = Append(hostSent, [value |-> value, objId |-> s.wire.objId])
           /\ hostThen' = hostThen \cup (s.attached \ ran)
           /\ thenLog' = SettlementsLogged(thenLog, ran, hostPromises)
           /\ IF immediate
              THEN /\ SetProxyState(ProxyReceiveAll(msgs, ProxyState))
                   /\ UNCHANGED toProxy
              ELSE /\ toProxy' = toProxy \o msgs
                   /\ UNCHANGED << asyncCallbacks, promises, regVars >>
    /\ UNCHANGED << immediate, callId, stack, histVars, disposals, toHost, hostJobs, hostLog,
                    hostSeen, obj_diedDelivered, currentContext, modeVars, wireVars,
                    hostPromises, descVars, setVars >>

NextCarrier ==
    \/ \E value \in PromiseValues \cup HostValues :
          Len(hostSent) < MaxSends /\ MayMakeProxy /\ HostPasses(value)
    \/ ProxyReceive
    \/ HostReceive
    \/ \E h \in 1..Len(proxyHeap) : Len(disposals) < MaxLifeDisposals /\ DisposeProxy(h)
    \/ \E p \in PromiseValues, outcome \in Outcomes : PromiseSettles(p, outcome)
    \/ \E n \in hostThen : ThenRuns(n)

SpecCarrier == InitLife /\ [][NextCarrier]_vars

\* The step hands the settlement of the promise serialized under k to the
\* channel.
HandsSettlement(k) ==
    /\ MapHas(thenLog', k)
    /\ ~MapHas(thenLog, k) \/ thenLog'[k].replies > thenLog[k].replies

\* The message carries the wire form of the promise with the id k.
Carries(message, k) ==
    /\ message.action = "fn_call"
    /\ \E i \in 1..Len(message.args) : message.args[i] = Wire("object", k, "Promise")

----------------------------------------------------------------------------
(* SpecKeys: asyncCallbacks holds the pairs of the endpoint's own async     *)
(* calls, under its stringified call counter, and the pairs of the promises *)
(* it deserialized, under the objIds that the peer's id generator made.     *)

\* Ids that the peer's objectIdGenerator returns, each once: fresh unique
\* strings, as a random-id generator and as a counting generator make them.
GeneratedIds == { "id1", "1" }

InitKeys == Init /\ ~immediate

\* The peer passes a promise it registered under objId as the argument of a
\* void call.
PeerPasses(objId) ==
    /\ \A i \in 1..Len(hostSent) : hostSent[i].objId # objId
    /\ hostSent' = Append(hostSent, [value |-> "p1", objId |-> objId])
    /\ toProxy' = Append(toProxy, sendAsyncIfPossible(
                       [action |-> "fn_call", callType |-> "void", objId |-> "cb",
                        prop |-> "", callId |-> "",
                        args |-> << Wire("object", objId, "Promise") >>]))
    /\ UNCHANGED << immediate, callerVars, regVars, histVars, disposals, toHost, hostVars,
                    hostObjectId, idCounter, modeVars, wireVars, promiseVars, descVars,
                    setVars >>

\* One async call at a time: no call starts while another is between its
\* callId++ and its asyncCallbacks.set.
NextKeys ==
    \/ \E c \in ProxyFunctions : invocations < MaxCalls /\ stack = << >> /\ AsyncCallBegin(c)
    \/ AsyncCallEnd
    \/ HostReceive
    \/ \E job \in hostJobs : HostPromiseSettles(job)
    \/ \E objId \in GeneratedIds : PeerPasses(objId)
    \/ \E objId \in GeneratedIds, outcome \in Outcomes :
           (\E i \in 1..Len(hostSent) : hostSent[i].objId = objId) /\ PeerSettles(objId, outcome)
    \/ ProxyReceive

SpecKeys == InitKeys /\ [][NextKeys]_vars

\* C39: the entries of async calls and of deserialized promises do not
\* disturb each other.  No entry of asyncCallbacks is replaced by another
\* pair; the promise of an async call settles only once the host has
\* replied to that call, and a deserialized promise only once the peer has
\* sent the settlement of the promise it passed.
C39_KeysApart ==
    [][/\ \A k \in DOMAIN asyncCallbacks :
              MapHas(asyncCallbacks', k) => asyncCallbacks'[k] = asyncCallbacks[k]
       /\ \A slot \in 1..Len(promises) :
              (promises[slot].status = "pending" /\ promises'[slot].status # "pending")
                  => IF promises[slot].call.action = "promise"
                     THEN MapHas(thenLog, promises[slot].call.objId)
                     ELSE LogOf(hostLog, promises[slot].msgId).replies >= 1]_vars
====
